---- MODULE Spec2Model ----
(***************************************************************************)
(* Verification model of the ruby (furigana) conversion engine of          *)
(* logseq-furigana-ruby, src/src/parser.ts.                                *)
(*                                                                         *)
(* Text is a sequence of tokens.  A token is one character ("a", "[",      *)
(* "^", " ", ...) or an indivisible run of characters none of which the    *)
(* scanner ever tests on its own ("<ruby", "ls-ruby-over", "</rt>", ...):  *)
(* every character the code looks at individually (whitespace, brackets,   *)
(* parentheses, "^", "_", "|", backslash, backtick, line breaks, the       *)
(* quote that ends an attribute, ">") is always a token of its own, so a   *)
(* slice of the token sequence is a slice of the string.  Indices are      *)
(* 0-based as in the source: At(s, i) is s[i] and Slice(s, a, b) is        *)
(* s.slice(a, b).                                                          *)
(***************************************************************************)
EXTENDS Integers, Sequences, FiniteSets, TLC

\* ------------------------------------------------------------------------
\* String primitives (JavaScript semantics on token sequences)
\* ------------------------------------------------------------------------

\* s[i]; out of range reads give the token "" (JavaScript's undefined).
At(s, i) == IF i >= 0 /\ i < Len(s) THEN s[i + 1] ELSE ""

\* s.slice(a, b) for 0 <= a.
Slice(s, a, b) == IF b <= a THEN << >> ELSE SubSeq(s, a + 1, IF b > Len(s) THEN Len(s) ELSE b)

\* s.slice(a)
SliceFrom(s, a) == Slice(s, a, Len(s))

RECURSIVE Flatten(_)
Flatten(ss) == IF ss = << >> THEN << >> ELSE Head(ss) \o Flatten(Tail(ss))

\* parts.join(sep)
RECURSIVE Join(_, _)
Join(parts, sep) ==
  IF parts = << >> THEN << >>
  ELSE IF Len(parts) = 1 THEN parts[1]
  ELSE parts[1] \o sep \o Join(Tail(parts), sep)

\* the least and the greatest index of a set of indices (-1 if there is none)
MinIndex(S) == IF S = {} THEN -1 ELSE CHOOSE k \in S : \A j \in S : k <= j
MaxIndex(S) == IF S = {} THEN -1 ELSE CHOOSE k \in S : \A j \in S : j <= k

\* haystack.includes(needle) and the first index of needle at or after from (-1 if none)
IndexOfFrom(s, needle, from) ==
  MinIndex({k \in from..(Len(s) - Len(needle)) : Slice(s, k, k + Len(needle)) = needle})

Includes(s, needle) == IndexOfFrom(s, needle, 0) >= 0

HasToken(s, t) == \E k \in 1..Len(s) : s[k] = t

\* /\s/ : the whitespace characters of the model's alphabet
Whitespace == {" ", "\t", "\n", "\r"}
IsSpace(ch) == ch \in Whitespace

\* String.prototype.trim
RECURSIVE TrimStart(_)
TrimStart(s) == IF s # << >> /\ IsSpace(Head(s)) THEN TrimStart(Tail(s)) ELSE s
RECURSIVE TrimEnd(_)
TrimEnd(s) == IF s # << >> /\ IsSpace(s[Len(s)]) THEN TrimEnd(SubSeq(s, 1, Len(s) - 1)) ELSE s
Trim(s) == TrimEnd(TrimStart(s))

\* ------------------------------------------------------------------------
\* Internal helpers, parser.ts 21-99
\* ------------------------------------------------------------------------

OVER == "^^"
UNDER == "^_"
RubyOp == {OVER, UNDER}

OpToken(op) == IF op = OVER THEN <<"^", "^", "(">> ELSE <<"^", "_", "(">>

BOUTEN_PATTERN == <<".", ".">>

\* UNDERLINE_STYLES[pattern] ?? null
getUnderlineStyle(pattern) ==
  IF pattern = <<".", "-">> THEN "solid"
  ELSE IF pattern = <<".", "~">> THEN "wavy"
  ELSE IF pattern = <<".", "=">> THEN "double"
  ELSE "null"

underlineClasses(style) ==
  IF style = "solid" THEN <<"ls-ruby-underline">>
  ELSE IF style = "wavy" THEN <<"ls-ruby-underline", " ", "ls-ruby-underline-wavy">>
  ELSE <<"ls-ruby-underline", " ", "ls-ruby-underline-double">>

\* op === "^_" ? getUnderlineStyle(rawAnn) : null -- a marker is looked for on the under side only
UlStyleOf_anySide(op, pattern) == getUnderlineStyle(pattern)
UlStyleOf(op, pattern) == IF op = UNDER THEN getUnderlineStyle(pattern) ELSE "null"

\* number of consecutive backslashes that end just before index i
RECURSIVE BackslashRun(_, _)
BackslashRun(input, j) ==
  IF j >= 0 /\ At(input, j) = "\\" THEN 1 + BackslashRun(input, j - 1) ELSE 0

isEscaped(input, i) == BackslashRun(input, i - 1) % 2 = 1

\* input.replace(/\\(.)/g, "$1"): "." does not match a line break.  The matches are taken
\* from left to right, each search starting where the previous match ended; at is the index
\* of the next match (-1: none)
RECURSIVE unescape(_)
UnescapeMatch(input, at) ==
  IF at < 0 THEN input
  ELSE Slice(input, 0, at) \o <<At(input, at + 1)>> \o unescape(SliceFrom(input, at + 2))
unescape(input) ==
  UnescapeMatch(input, MinIndex({k \in 0..(Len(input) - 2) :
    At(input, k) = "\\" /\ At(input, k + 1) \notin {"\n", "\r"}}))

RECURSIVE SplitPipeLoop(_, _, _, _)
SplitPipeLoop(input, i, buf, out) ==
  IF i >= Len(input) THEN Append(out, buf)
  ELSE IF At(input, i) = "|" /\ ~isEscaped(input, i)
       THEN SplitPipeLoop(input, i + 1, << >>, Append(out, buf))
  ELSE SplitPipeLoop(input, i + 1, Append(buf, At(input, i)), out)

splitByUnescapedPipe(input) == SplitPipeLoop(input, 0, << >>, << >>)

\* the scan stops at the first line break or unescaped ")" at or after start
CloseParenAt(input, stop) == IF stop >= 0 /\ At(input, stop) = ")" THEN stop ELSE -1
findCloseParen(input, start) ==
  CloseParenAt(input, MinIndex({k \in start..(Len(input) - 1) :
    \/ At(input, k) \in {"\n", "\r"}
    \/ At(input, k) = ")" /\ ~isEscaped(input, k)}))

\* the scan stops at the last line break or unescaped "[" at or before i
OpenBracketAt(input, stop) == IF stop >= 0 /\ At(input, stop) = "[" THEN stop ELSE -1
\* the scan taken from the start of the text: the outermost bracket
FindOpenBracketLoop_outermost(input, i) ==
  OpenBracketAt(input, MinIndex({k \in 0..i :
    \/ At(input, k) \in {"\n", "\r"}
    \/ At(input, k) = "[" /\ ~isEscaped(input, k)}))
FindOpenBracketLoop(input, i) ==
  OpenBracketAt(input, MaxIndex({k \in 0..i :
    \/ At(input, k) \in {"\n", "\r"}
    \/ At(input, k) = "[" /\ ~isEscaped(input, k)}))

findOpenBracket(input, closeBracketIdx) == FindOpenBracketLoop(input, closeBracketIdx - 1)

\* ------------------------------------------------------------------------
\* Inline style constants and rendering helpers, parser.ts 105-192
\* ------------------------------------------------------------------------

STYLE_BOUTEN_OVER ==
  <<"text-emphasis:filled", " ", "dot;-webkit-text-emphasis:filled", " ",
    "dot;text-emphasis-position:over", " ", "right;-webkit-text-emphasis-position:over",
    " ", "right">>
STYLE_BOUTEN_UNDER == <<"text-decoration:underline", " ", "dotted;text-underline-offset:0.15em">>
STYLE_RUBY_UNDER == <<"ruby-position:under">>

underlineInlineStyle(style) ==
  <<"text-decoration-line:underline;text-underline-offset:0.15em">>
    \o (IF style = "wavy" THEN <<";", "text-decoration-style:wavy">>
        ELSE IF style = "double" THEN <<";", "text-decoration-style:double">>
        ELSE << >>)

boutenInlineStyle(op) == IF op = OVER THEN STYLE_BOUTEN_OVER ELSE STYLE_BOUTEN_UNDER

\* the style attribute for under-positioned ruby, empty for over
rubyPosAttr(pos) ==
  IF pos = "ls-ruby-under" THEN <<" ", "style=\"">> \o STYLE_RUBY_UNDER \o <<"\"">> ELSE << >>

RP_OPEN == <<"<rp>", "(", "</rp>">>
RP_CLOSE == <<"<rp>", ")", "</rp>">>

\* <ruby class="ls-ruby ${pos}"${rubyPosAttr(pos)}>
RubyOpenTag(pos) ==
  <<"<ruby", " ", "class=\"", "ls-ruby", " ", pos, "\"">> \o rubyPosAttr(pos) \o <<">">>

\* <ruby class="ls-ruby ${pos} ls-ruby-double"${rubyPosAttr(pos)}>
RubyDoubleOpenTag(pos) ==
  <<"<ruby", " ", "class=\"", "ls-ruby", " ", pos, " ", "ls-ruby-double", "\"">>
    \o rubyPosAttr(pos) \o <<">">>

\* <rp>(</rp><rt>${text}</rt><rp>)</rp></ruby>
RtTail(text) == RP_OPEN \o <<"<rt>">> \o text \o <<"</rt>">> \o RP_CLOSE \o <<"</ruby>">>

\* one single-level ruby element
RubyElement(pos, body, text) == RubyOpenTag(pos) \o body \o RtTail(text)

emptyRuby(char, pos) == RubyElement(pos, char, << >>)

PosOf(op) == IF op = OVER THEN "ls-ruby-over" ELSE "ls-ruby-under"
Opposite(op) == IF op = OVER THEN UNDER ELSE OVER

renderBouten(base, op) ==
  <<"<span", " ", "class=\"", "ls-ruby-bouten", " ",
    IF op = OVER THEN "ls-ruby-bouten-over" ELSE "ls-ruby-bouten-under", "\"", " ", "style=\"">>
    \o boutenInlineStyle(op) \o <<"\"", ">">> \o unescape(base) \o <<"</span>">>

renderBoutenBoth(base) ==
  <<"<span", " ", "class=\"", "ls-ruby-bouten", " ", "ls-ruby-bouten-over", " ",
    "ls-ruby-bouten-under", "\"", " ", "style=\"">>
    \o STYLE_BOUTEN_OVER \o <<";">> \o STYLE_BOUTEN_UNDER
    \o <<"\"", ">">> \o unescape(base) \o <<"</span>">>

renderUnderline(base, style) ==
  <<"<span", " ", "class=\"">> \o underlineClasses(style) \o <<"\"", " ", "style=\"">>
    \o underlineInlineStyle(style) \o <<"\"", ">">> \o unescape(base) \o <<"</span>">>

\* the bouten + underline combination span, parser.ts 467-472 and 553-557
renderBoutenUnderline(base, boutenOp, ulStyle) ==
  <<"<span", " ", "class=\"", "ls-ruby-bouten", " ",
    IF boutenOp = OVER THEN "ls-ruby-bouten-over" ELSE "ls-ruby-bouten-under", " ">>
    \o underlineClasses(ulStyle) \o <<"\"", " ", "style=\"">>
    \o boutenInlineStyle(boutenOp) \o <<";">> \o underlineInlineStyle(ulStyle)
    \o <<"\"", ">">> \o unescape(base) \o <<"</span>">>

\* [a, b].filter(Boolean).join(";") with a = STYLE_RUBY_UNDER or ""
MixedStyles(rubyPos, decoStyle) ==
  IF rubyPos = "ls-ruby-under" THEN STYLE_RUBY_UNDER \o <<";">> \o decoStyle ELSE decoStyle

renderRubyWithBouten(base, rubyText, rubyOp, boutenOp) ==
  <<"<ruby", " ", "class=\"", "ls-ruby", " ", "ls-ruby-mixed", " ", PosOf(rubyOp), " ",
    IF boutenOp = OVER THEN "ls-ruby-bouten-over" ELSE "ls-ruby-bouten-under",
    "\"", " ", "style=\"">>
    \o MixedStyles(PosOf(rubyOp), boutenInlineStyle(boutenOp)) \o <<"\"", ">">>
    \o unescape(base) \o RtTail(rubyText)

renderRubyWithUnderline(base, rubyText, rubyOp, style) ==
  <<"<ruby", " ", "class=\"", "ls-ruby", " ", "ls-ruby-mixed", " ", PosOf(rubyOp), " ">>
    \o underlineClasses(style) \o <<"\"", " ", "style=\"">>
    \o MixedStyles(PosOf(rubyOp), underlineInlineStyle(style)) \o <<"\"", ">">>
    \o unescape(base) \o RtTail(rubyText)

\* text.split(/\s+/).filter(Boolean)
RECURSIVE SplitSpacesLoop(_, _, _)
SplitSpacesLoop(text, buf, out) ==
  IF text = << >> THEN (IF buf = << >> THEN out ELSE Append(out, buf))
  ELSE IF IsSpace(Head(text))
       THEN SplitSpacesLoop(Tail(text), << >>, IF buf = << >> THEN out ELSE Append(out, buf))
  ELSE SplitSpacesLoop(Tail(text), Append(buf, Head(text)), out)

splitBySpaces(text) == SplitSpacesLoop(text, << >>, << >>)

shouldHideAnnotation(baseChar, annotation) == <<baseChar>> = annotation

\* ------------------------------------------------------------------------
\* renderRuby, parser.ts 194-309
\* ------------------------------------------------------------------------

\* The characters of the tokens that are longer than one character; every other
\* token of the model is a single character.
TokChars(t) ==
  CASE t = "<ruby" -> <<"<", "r", "u", "b", "y">>
    [] t = "class=\"" -> <<"c", "l", "a", "s", "s", "=", "\"">>
    [] t = "style=\"" -> <<"s", "t", "y", "l", "e", "=", "\"">>
    [] t = "ls-ruby-underline-double" ->
         <<"l", "s", "-", "r", "u", "b", "y", "-", "u", "n", "d", "e", "r", "l", "i", "n",
         "e", "-", "d", "o", "u", "b", "l", "e">>
    [] t = "ls-ruby-underline-wavy" ->
         <<"l", "s", "-", "r", "u", "b", "y", "-", "u", "n", "d", "e", "r", "l", "i", "n",
         "e", "-", "w", "a", "v", "y">>
    [] t = "ls-ruby-underline" ->
         <<"l", "s", "-", "r", "u", "b", "y", "-", "u", "n", "d", "e", "r", "l", "i", "n",
         "e">>
    [] t = "ls-ruby-bouten-over" ->
         <<"l", "s", "-", "r", "u", "b", "y", "-", "b", "o", "u", "t", "e", "n", "-", "o",
         "v", "e", "r">>
    [] t = "ls-ruby-bouten-under" ->
         <<"l", "s", "-", "r", "u", "b", "y", "-", "b", "o", "u", "t", "e", "n", "-", "u",
         "n", "d", "e", "r">>
    [] t = "ls-ruby-bouten" ->
         <<"l", "s", "-", "r", "u", "b", "y", "-", "b", "o", "u", "t", "e", "n">>
    [] t = "ls-ruby-double" ->
         <<"l", "s", "-", "r", "u", "b", "y", "-", "d", "o", "u", "b", "l", "e">>
    [] t = "ls-ruby-mixed" ->
         <<"l", "s", "-", "r", "u", "b", "y", "-", "m", "i", "x", "e", "d">>
    [] t = "ls-ruby-over" -> <<"l", "s", "-", "r", "u", "b", "y", "-", "o", "v", "e", "r">>
    [] t = "ls-ruby-under" ->
         <<"l", "s", "-", "r", "u", "b", "y", "-", "u", "n", "d", "e", "r">>
    [] t = "ls-ruby" -> <<"l", "s", "-", "r", "u", "b", "y">>
    [] t = "ruby-position:under" ->
         <<"r", "u", "b", "y", "-", "p", "o", "s", "i", "t", "i", "o", "n", ":", "u", "n",
         "d", "e", "r">>
    [] t = "<rp>" -> <<"<", "r", "p", ">">>
    [] t = "</rp>" -> <<"<", "/", "r", "p", ">">>
    [] t = "<rt>" -> <<"<", "r", "t", ">">>
    [] t = "</rt>" -> <<"<", "/", "r", "t", ">">>
    [] t = "</ruby>" -> <<"<", "/", "r", "u", "b", "y", ">">>
    [] t = "<span" -> <<"<", "s", "p", "a", "n">>
    [] t = "</span>" -> <<"<", "/", "s", "p", "a", "n", ">">>
    [] t = "<rtc>" -> <<"<", "r", "t", "c", ">">>
    [] t = "</rtc>" -> <<"<", "/", "r", "t", "c", ">">>
    [] t = "renderer" -> <<"r", "e", "n", "d", "e", "r", "e", "r">>
    [] t = ":ruby" -> <<":", "r", "u", "b", "y">>
    [] t = "under" -> <<"u", "n", "d", "e", "r">>
    [] t = "UNDER" -> <<"U", "N", "D", "E", "R">>
    [] t = "&amp;" -> <<"&", "a", "m", "p", ";">>
    [] t = "&lt;" -> <<"&", "l", "t", ";">>
    [] t = "&gt;" -> <<"&", "g", "t", ";">>
    [] t = "text-emphasis:filled" ->
         <<"t", "e", "x", "t", "-", "e", "m", "p", "h", "a", "s", "i", "s", ":", "f", "i",
         "l", "l", "e", "d">>
    [] t = "dot;-webkit-text-emphasis:filled" ->
         <<"d", "o", "t", ";", "-", "w", "e", "b", "k", "i", "t", "-", "t", "e", "x", "t",
         "-", "e", "m", "p", "h", "a", "s", "i", "s", ":", "f", "i", "l", "l", "e", "d">>
    [] t = "dot;text-emphasis-position:over" ->
         <<"d", "o", "t", ";", "t", "e", "x", "t", "-", "e", "m", "p", "h", "a", "s", "i",
         "s", "-", "p", "o", "s", "i", "t", "i", "o", "n", ":", "o", "v", "e", "r">>
    [] t = "right;-webkit-text-emphasis-position:over" ->
         <<"r", "i", "g", "h", "t", ";", "-", "w", "e", "b", "k", "i", "t", "-", "t", "e",
         "x", "t", "-", "e", "m", "p", "h", "a", "s", "i", "s", "-", "p", "o", "s", "i", "t",
         "i", "o", "n", ":", "o", "v", "e", "r">>
    [] t = "right" -> <<"r", "i", "g", "h", "t">>
    [] t = "text-decoration:underline" ->
         <<"t", "e", "x", "t", "-", "d", "e", "c", "o", "r", "a", "t", "i", "o", "n", ":",
         "u", "n", "d", "e", "r", "l", "i", "n", "e">>
    [] t = "dotted;text-underline-offset:0.15em" ->
         <<"d", "o", "t", "t", "e", "d", ";", "t", "e", "x", "t", "-", "u", "n", "d", "e",
         "r", "l", "i", "n", "e", "-", "o", "f", "f", "s", "e", "t", ":", "0", ".", "1", "5",
         "e", "m">>
    [] t = "text-decoration-line:underline;text-underline-offset:0.15em" ->
         <<"t", "e", "x", "t", "-", "d", "e", "c", "o", "r", "a", "t", "i", "o", "n", "-",
         "l", "i", "n", "e", ":", "u", "n", "d", "e", "r", "l", "i", "n", "e", ";", "t", "e",
         "x", "t", "-", "u", "n", "d", "e", "r", "l", "i", "n", "e", "-", "o", "f", "f", "s",
         "e", "t", ":", "0", ".", "1", "5", "e", "m">>
    [] t = "text-decoration-style:wavy" ->
         <<"t", "e", "x", "t", "-", "d", "e", "c", "o", "r", "a", "t", "i", "o", "n", "-",
         "s", "t", "y", "l", "e", ":", "w", "a", "v", "y">>
    [] t = "text-decoration-style:double" ->
         <<"t", "e", "x", "t", "-", "d", "e", "c", "o", "r", "a", "t", "i", "o", "n", "-",
         "s", "t", "y", "l", "e", ":", "d", "o", "u", "b", "l", "e">>
    [] t = "~E000~CODE0~E000~" -> <<"~E000~", "C", "O", "D", "E", "0", "~E000~">>
    [] t = "~E000~CODE1~E000~" -> <<"~E000~", "C", "O", "D", "E", "1", "~E000~">>
    [] t = "~E000~CODE2~E000~" -> <<"~E000~", "C", "O", "D", "E", "2", "~E000~">>
    [] t = "~E000~CODE3~E000~" -> <<"~E000~", "C", "O", "D", "E", "3", "~E000~">>
    [] OTHER -> <<t>>

\* Array.from(text)
RECURSIVE Chars(_)
Chars(text) == IF text = << >> THEN << >> ELSE TokChars(Head(text)) \o Chars(Tail(text))

countCharacters(text) == Len(Chars(text))

\* capped[k].includes(" ") ? splitBySpaces(capped[k]) : null   (every use of the
\* result is guarded by the same includes test, so null is never read)
AnnParts(level) == IF HasToken(level, " ") THEN splitBySpaces(level) ELSE "null"

\* parser.ts 211-226: both levels aligned, one unit per base character
RECURSIVE BothAlignedLoop(_, _, _, _, _, _)
BothAlignedLoop(baseChars, ann1Parts, ann2Parts, innerPos, outerPos, i) ==
  IF i > Len(baseChars) THEN << >>
  ELSE
    LET char == <<baseChars[i]>>
        a1 == ann1Parts[i]
        a2 == ann2Parts[i]
        hide1 == shouldHideAnnotation(baseChars[i], a1)
        hide2 == shouldHideAnnotation(baseChars[i], a2)
        unit == IF hide1 /\ hide2 THEN emptyRuby(char, innerPos)
                ELSE IF hide1 THEN RubyElement(outerPos, char, a2)
                ELSE IF hide2 THEN RubyElement(innerPos, char, a1)
                ELSE RubyDoubleOpenTag(outerPos) \o RubyElement(innerPos, char, a1) \o RtTail(a2)
    IN unit \o BothAlignedLoop(baseChars, ann1Parts, ann2Parts, innerPos, outerPos, i + 1)

\* parser.ts 233-241, 252-260, 282-290: one level aligned, one unit per base character
RECURSIVE AlignedLoop(_, _, _, _)
AlignedLoop(baseChars, annParts, pos, i) ==
  IF i > Len(baseChars) THEN << >>
  ELSE
    (IF shouldHideAnnotation(baseChars[i], annParts[i])
     THEN emptyRuby(<<baseChars[i]>>, pos)
     ELSE RubyElement(pos, <<baseChars[i]>>, annParts[i]))
    \o AlignedLoop(baseChars, annParts, pos, i + 1)

renderRuby(base, op, levels) ==
  LET safeBase == unescape(base)
      capped == SubSeq(levels, 1, IF Len(levels) > 2 THEN 2 ELSE Len(levels))
      baseChars == Chars(safeBase)
      innerPos == PosOf(op)
      outerPos == PosOf(Opposite(op))
  IN
  IF Len(capped) = 2 THEN
    LET ann1Parts == AnnParts(capped[1])
        ann2Parts == AnnParts(capped[2])
        can1Align == HasToken(capped[1], " ") /\ Len(ann1Parts) = Len(baseChars)
        can2Align == HasToken(capped[2], " ") /\ Len(ann2Parts) = Len(baseChars)
    IN
    IF can1Align /\ can2Align
      THEN BothAlignedLoop(baseChars, ann1Parts, ann2Parts, innerPos, outerPos, 1)
    ELSE IF can1Align
      THEN RubyDoubleOpenTag(outerPos) \o AlignedLoop(baseChars, ann1Parts, innerPos, 1)
             \o RtTail(capped[2])
    ELSE IF can2Align
      THEN RubyDoubleOpenTag(innerPos) \o AlignedLoop(baseChars, ann2Parts, outerPos, 1)
             \o RtTail(capped[1])
    ELSE RubyDoubleOpenTag(outerPos) \o RubyElement(innerPos, safeBase, capped[1])
           \o RtTail(capped[2])
  ELSE IF Len(capped) = 1 /\ HasToken(capped[1], " ")
          /\ Len(splitBySpaces(capped[1])) = Len(baseChars)
    THEN AlignedLoop(baseChars, splitBySpaces(capped[1]), innerPos, 1)
  ELSE IF Len(capped) = 1
    THEN RubyElement(innerPos, safeBase, capped[1])
  ELSE RubyDoubleOpenTag(outerPos) \o RubyElement(innerPos, safeBase, capped[1])
         \o RtTail(capped[2])

\* ------------------------------------------------------------------------
\* Public API: detection, parser.ts 344-352
\* ------------------------------------------------------------------------

hasRuby(text) == Includes(text, OpToken(OVER)) \/ Includes(text, OpToken(UNDER))

\* ------------------------------------------------------------------------
\* rubyToHTMLPass, parser.ts 357-586
\* ------------------------------------------------------------------------

\* OP_REGEX.lastIndex = i; OP_REGEX.exec(input): index of the next operator token, or -1
OpRegexExec(input, i) ==
  MinIndex({k \in i..(Len(input) - 3) :
    At(input, k) = "^" /\ At(input, k + 1) \in {"^", "_"} /\ At(input, k + 2) = "("})

\* parser.ts 386-392: the bare-token scan; returns k
BareScan(input, k) ==
  MaxIndex({j \in 0..k :
    \/ IsSpace(At(input, j))
    \/ At(input, j) \in {"[", "]"} /\ ~isEscaped(input, j)})

\* parser.ts 374-395: baseStart of the operator at opStart (-1: none)
BaseStartOf(input, opStart, consumedFrom) ==
  IF opStart > 0 /\ At(input, opStart - 1) = "]" /\ ~isEscaped(input, opStart - 1)
  THEN LET open == findOpenBracket(input, opStart - 1)
       IN IF open >= 0 /\ open >= consumedFrom THEN open ELSE -1
  ELSE BareScan(input, opStart - 1) + 1

\* parser.ts 374-395: baseHtml of the operator at opStart
BaseHtmlOf(input, opStart, consumedFrom) ==
  IF opStart > 0 /\ At(input, opStart - 1) = "]" /\ ~isEscaped(input, opStart - 1)
  THEN LET open == findOpenBracket(input, opStart - 1)
       IN IF open >= 0 /\ open >= consumedFrom THEN Slice(input, open + 1, opStart - 1)
          ELSE << >>
  ELSE Slice(input, BareScan(input, opStart - 1) + 1, opStart)

\* parser.ts 417-442: the chained second operator.  has is "rawAnn2 !== null"; ann is
\* rawAnn2, op is op2 ("null" when absent) and end is finalEnd.
ChainOf(input, op, annEnd) ==
  LET next == annEnd + 1
      none == [has |-> FALSE, ann |-> << >>, op |-> "null", end |-> annEnd + 1]
  IN
  IF next + 2 < Len(input) /\ At(input, next) = "^"
     /\ At(input, next + 1) \in {"^", "_"} /\ At(input, next + 2) = "("
  THEN LET nextOp == IF At(input, next + 1) = "^" THEN OVER ELSE UNDER
           annEnd2 == findCloseParen(input, next + 3)
       IN IF nextOp # op /\ annEnd2 >= 0 /\ Slice(input, next + 3, annEnd2) # << >>
          THEN [has |-> TRUE, ann |-> Slice(input, next + 3, annEnd2), op |-> nextOp,
                end |-> annEnd2 + 1]
          ELSE none
  ELSE none

\* parts.map(unescape)
MapUnescape(parts) == [k \in 1..Len(parts) |-> unescape(parts[k])]

\* parser.ts 527-581: Case 4, regular ruby and the special patterns in pipe levels
RenderLevels(baseHtml, op, rawAnn, hasAnn2, rawAnn2) ==
  LET levels == MapUnescape(splitByUnescapedPipe(rawAnn))
                  \o (IF hasAnn2 THEN MapUnescape(splitByUnescapedPipe(rawAnn2)) ELSE << >>)
      innerOp == op
      outerOp == Opposite(op)
  IN
  IF Len(levels) = 2 /\ ~hasAnn2 THEN
    LET isInnerBouten == levels[1] = BOUTEN_PATTERN
        isOuterBouten == levels[2] = BOUTEN_PATTERN
        innerUlStyle == UlStyleOf(innerOp, levels[1])
        outerUlStyle == UlStyleOf(outerOp, levels[2])
        isInnerUnderline == innerUlStyle # "null"
        isOuterUnderline == outerUlStyle # "null"
        isInnerSpecial == isInnerBouten \/ isInnerUnderline
        isOuterSpecial == isOuterBouten \/ isOuterUnderline
    IN
    IF isInnerSpecial /\ isOuterSpecial THEN
      IF isInnerBouten /\ isOuterBouten THEN renderBoutenBoth(baseHtml)
      ELSE IF (isInnerBouten \/ isOuterBouten) /\ (isInnerUnderline \/ isOuterUnderline)
        THEN renderBoutenUnderline(baseHtml,
               IF isInnerBouten THEN innerOp ELSE outerOp,
               IF isInnerUnderline THEN innerUlStyle ELSE outerUlStyle)
      ELSE renderUnderline(baseHtml, innerUlStyle)
    ELSE IF isInnerSpecial THEN
      IF isInnerBouten THEN renderRubyWithBouten(baseHtml, levels[2], outerOp, innerOp)
      ELSE renderRubyWithUnderline(baseHtml, levels[2], outerOp, innerUlStyle)
    ELSE IF isOuterSpecial THEN
      IF isOuterBouten THEN renderRubyWithBouten(baseHtml, levels[1], innerOp, outerOp)
      ELSE renderRubyWithUnderline(baseHtml, levels[1], innerOp, outerUlStyle)
    ELSE renderRuby(baseHtml, op, levels)
  ELSE renderRuby(baseHtml, op, levels)

\* parser.ts 444-525: the resolution of one matched occurrence into its rendering,
\* Cases 1 to 4.  chain is ChainOf after the pipe-saturation rule of 446-450.
RenderMatch(baseHtml, op, rawAnn, chain) ==
  LET rawAnn2 == chain.ann
      op2 == chain.op
      isBouten1 == rawAnn = BOUTEN_PATTERN
      isBouten2 == chain.has /\ rawAnn2 = BOUTEN_PATTERN
      ulStyle1 == UlStyleOf(op, rawAnn)
      ulStyle2 == UlStyleOf(op2, rawAnn2)
      isUnderline1 == ulStyle1 # "null"
      isUnderline2 == ulStyle2 # "null"
      isSpecial1 == isBouten1 \/ isUnderline1
      isSpecial2 == isBouten2 \/ isUnderline2
  IN
  IF isSpecial1 /\ isSpecial2 THEN
    IF (isBouten1 /\ isUnderline2) \/ (isUnderline1 /\ isBouten2)
      THEN renderBoutenUnderline(baseHtml,
             IF isBouten1 THEN op ELSE op2,
             IF isUnderline1 THEN ulStyle1 ELSE ulStyle2)
    ELSE IF isBouten1 /\ isBouten2 THEN renderBoutenBoth(baseHtml)
    ELSE renderUnderline(baseHtml, ulStyle1)
  ELSE IF isSpecial1 /\ ~chain.has THEN
    IF isBouten1 THEN renderBouten(baseHtml, op) ELSE renderUnderline(baseHtml, ulStyle1)
  ELSE IF chain.has /\ (isSpecial1 \/ isSpecial2) THEN
    IF isSpecial1 /\ ~isSpecial2 THEN
      IF isBouten1 THEN renderRubyWithBouten(baseHtml, unescape(rawAnn2), op2, op)
      ELSE renderRubyWithUnderline(baseHtml, unescape(rawAnn2), op2, ulStyle1)
    ELSE
      IF isBouten2 THEN renderRubyWithBouten(baseHtml, unescape(rawAnn), op, op2)
      ELSE renderRubyWithUnderline(baseHtml, unescape(rawAnn), op, ulStyle2)
  ELSE RenderLevels(baseHtml, op, rawAnn, chain.has, rawAnn2)

\* parser.ts 397: the occurrence is passed through (base consumed, none or empty)
NoBase_dropEmpty(baseStart, consumedFrom, baseHtml) ==
  baseStart < consumedFrom \/ baseStart < 0
NoBase(baseStart, consumedFrom, baseHtml) ==
  baseStart < consumedFrom \/ baseStart < 0 \/ Len(baseHtml) = 0

\* parser.ts 444-450: pipe levels in the first annotation drop the chained content
\* (rawAnn2 = null, op2 = null) but keep finalEnd
Saturate_keepChain(found, rawAnn) == found
Saturate(found, rawAnn) ==
  IF found.has /\ Len(splitByUnescapedPipe(rawAnn)) > 1
  THEN [found EXCEPT !.has = FALSE, !.ann = << >>, !.op = "null"]
  ELSE found

\* parser.ts 364: OP_REGEX.lastIndex = i.  re is the lastIndex the shared regex holds
\* before the assignment
AssignLastIndex_stale(re, i) == re
AssignLastIndex(re, i) == i

\* the iteration without `out += input.slice(consumedFrom, baseStart)`
WhileBody_dropsSkipped(input, i, out, re) ==
  LET opStart == OpRegexExec(input, AssignLastIndex(re, i)) IN
  IF opStart < 0
  THEN [i |-> i, out |-> out \o SliceFrom(input, i), brk |-> TRUE, last |-> 0]
  ELSE
    LET op == IF At(input, opStart + 1) = "^" THEN OVER ELSE UNDER
        consumedFrom == i
        baseStart == BaseStartOf(input, opStart, consumedFrom)
        baseHtml == BaseHtmlOf(input, opStart, consumedFrom)
        annStart == opStart + 3
        annEnd == findCloseParen(input, annStart)
        rawAnn == Slice(input, annStart, annEnd)
        chain == Saturate(ChainOf(input, op, annEnd), rawAnn)
        \* Case 2 (496) resumes at annEnd + 1, every other case at finalEnd
        resume == IF (rawAnn = BOUTEN_PATTERN
                      \/ UlStyleOf(op, rawAnn) # "null")
                     /\ ~chain.has
                  THEN annEnd + 1 ELSE chain.end
    IN
    IF NoBase(baseStart, consumedFrom, baseHtml)
      THEN [i |-> opStart + 1, out |-> out \o Slice(input, i, opStart + 1),
            brk |-> FALSE, last |-> annStart]
    ELSE IF annEnd < 0
      THEN [i |-> i, out |-> out \o SliceFrom(input, i), brk |-> TRUE, last |-> annStart]
    ELSE IF Len(rawAnn) = 0
      THEN [i |-> annEnd + 1, out |-> out \o Slice(input, i, annEnd + 1),
            brk |-> FALSE, last |-> annStart]
    ELSE [i |-> resume,
          out |-> out \o RenderMatch(baseHtml, op, rawAnn, chain),
          brk |-> FALSE, last |-> annStart]
\* parser.ts 364-582: one iteration of the scan loop at cursor i with output out.
\* brk: the loop is left by break; last: OP_REGEX.lastIndex after the exec (0 after a
\* failed exec, else the end of the matched operator token)
WhileBody(input, i, out, re) ==
  LET opStart == OpRegexExec(input, AssignLastIndex(re, i)) IN
  IF opStart < 0
  THEN [i |-> i, out |-> out \o SliceFrom(input, i), brk |-> TRUE, last |-> 0]
  ELSE
    LET op == IF At(input, opStart + 1) = "^" THEN OVER ELSE UNDER
        consumedFrom == i
        baseStart == BaseStartOf(input, opStart, consumedFrom)
        baseHtml == BaseHtmlOf(input, opStart, consumedFrom)
        annStart == opStart + 3
        annEnd == findCloseParen(input, annStart)
        rawAnn == Slice(input, annStart, annEnd)
        chain == Saturate(ChainOf(input, op, annEnd), rawAnn)
        \* Case 2 (496) resumes at annEnd + 1, every other case at finalEnd
        resume == IF (rawAnn = BOUTEN_PATTERN
                      \/ UlStyleOf(op, rawAnn) # "null")
                     /\ ~chain.has
                  THEN annEnd + 1 ELSE chain.end
    IN
    IF NoBase(baseStart, consumedFrom, baseHtml)
      THEN [i |-> opStart + 1, out |-> out \o Slice(input, i, opStart + 1),
            brk |-> FALSE, last |-> annStart]
    ELSE IF annEnd < 0
      THEN [i |-> i, out |-> out \o SliceFrom(input, i), brk |-> TRUE, last |-> annStart]
    ELSE IF Len(rawAnn) = 0
      THEN [i |-> annEnd + 1, out |-> out \o Slice(input, i, annEnd + 1),
            brk |-> FALSE, last |-> annStart]
    ELSE [i |-> resume,
          out |-> out \o Slice(input, consumedFrom, baseStart)
                      \o RenderMatch(baseHtml, op, rawAnn, chain),
          brk |-> FALSE, last |-> annStart]

\* parser.ts 363-585: the scan loop of one pass from cursor i with output out; the
\* result is the returned text and the lastIndex the regex is left with
\* while (i < input.length) { ... }; s is the state one iteration leaves
RECURSIVE PassLoop(_, _, _, _)
AfterWhileBody(input, s) ==
  IF s.brk THEN [out |-> s.out, last |-> s.last] ELSE PassLoop(input, s.i, s.out, s.last)
PassLoop(input, i, out, re) ==
  IF i >= Len(input) THEN [out |-> out, last |-> re]
  ELSE AfterWhileBody(input, WhileBody(input, i, out, re))

rubyToHTMLPass(input, re) ==
  IF ~hasRuby(input) THEN [out |-> input, last |-> re] ELSE PassLoop(input, 0, << >>, re)

\* ------------------------------------------------------------------------
\* rubyToHTML, parser.ts 592-602
\* ------------------------------------------------------------------------

MaxPasses == 5

\* for (let pass = 0; pass < 5; pass++) { ... }; next is what the pass returned
RECURSIVE PassDriver(_, _, _)
AfterPass(result, pass, next) ==
  IF next.out = result THEN [out |-> result, last |-> next.last]
  ELSE IF ~hasRuby(next.out) THEN next
  ELSE PassDriver(next.out, pass + 1, next.last)
PassDriver(result, pass, re) ==
  IF pass >= MaxPasses THEN [out |-> result, last |-> re]
  ELSE AfterPass(result, pass, rubyToHTMLPass(result, re))

\* rubyToHTML called when the shared regex holds lastIndex re
RubyToHTMLRun(input, re) ==
  IF ~hasRuby(input) THEN [out |-> input, last |-> re] ELSE PassDriver(input, 0, re)

\* rubyToHTML called alone: a regex that has not been used holds lastIndex 0
rubyToHTML(input) == RubyToHTMLRun(input, 0).out

\* ------------------------------------------------------------------------
\* Code protection, parser.ts 315-338
\* ------------------------------------------------------------------------

\* The placeholder (U+E000, CODE, the index, U+E000): one indivisible token per index
Placeholder(idx) ==
  CASE idx = 0 -> "~E000~CODE0~E000~"
    [] idx = 1 -> "~E000~CODE1~E000~"
    [] idx = 2 -> "~E000~CODE2~E000~"
    [] idx = 3 -> "~E000~CODE3~E000~"
    [] OTHER -> "~E000~CODEn~E000~"

\* The backtick character (a TLA+ string cannot hold one)
TICK == "BACKTICK"

\* end (exclusive) of the match of the code regex (fenced: three backticks, lazily
\* anything, three backticks; or inline: a backtick, one or more characters that are
\* not a backtick, a backtick) that starts at i, or -1
NonTickRun(content, j) ==
  IF j >= Len(content) THEN j
  ELSE MinIndex({k \in j..Len(content) : k = Len(content) \/ At(content, k) = TICK})

CodeMatchEnd(content, i) ==
  LET fence == <<TICK, TICK, TICK>>
      close == IndexOfFrom(content, fence, i + 3)
      stop == NonTickRun(content, i + 1)
  IN
  IF Slice(content, i, i + 3) = fence /\ close >= 0 THEN close + 3
  ELSE IF At(content, i) = TICK /\ stop > i + 1 /\ At(content, stop) = TICK THEN stop + 1
  ELSE -1

\* content.replace(regex, callback): the matches are taken from left to right, each search
\* starting where the previous match ended; at is the index of the next match (-1: none)
RECURSIVE ProtectLoop(_, _, _, _)
ProtectMatch(content, i, result, tokens, at) ==
  IF at < 0 THEN [result |-> result \o SliceFrom(content, i), tokens |-> tokens]
  ELSE ProtectLoop(content, CodeMatchEnd(content, at),
                   Append(result \o Slice(content, i, at), Placeholder(Len(tokens))),
                   Append(tokens, Slice(content, at, CodeMatchEnd(content, at))))
ProtectLoop(content, i, result, tokens) ==
  ProtectMatch(content, i, result, tokens,
               MinIndex({k \in i..(Len(content) - 1) : CodeMatchEnd(content, k) >= 0}))

protectCode(content) == ProtectLoop(content, 0, << >>, << >>)

\* result.split(placeholder).join(token)
\* at is the index of the first occurrence of the placeholder (-1: none)
RECURSIVE SplitJoin(_, _, _)
SplitJoinAt(result, placeholder, token, at) ==
  IF at < 0 THEN result
  ELSE Slice(result, 0, at) \o token \o SplitJoin(SliceFrom(result, at + 1), placeholder, token)
SplitJoin(result, placeholder, token) ==
  SplitJoinAt(result, placeholder, token,
              MinIndex({k \in 0..(Len(result) - 1) : At(result, k) = placeholder}))

RECURSIVE RestoreLoop(_, _, _)
RestoreLoop(result, tokens, i) ==
  IF i >= Len(tokens) THEN result
  ELSE RestoreLoop(SplitJoin(result, Placeholder(i), tokens[i + 1]), tokens, i + 1)

restoreCode(content, tokens) == RestoreLoop(content, tokens, 0)

\* ------------------------------------------------------------------------
\* MACRO_RE, parser.ts 352
\*   /\{\{renderer\s+:ruby,\s*([^,}]+),\s*([^,}]+)(?:,\s*([^}]+))?\}\}/g
\* ------------------------------------------------------------------------

SpaceRun(s, j) ==
  IF j >= Len(s) THEN j
  ELSE MinIndex({k \in j..Len(s) : k = Len(s) \/ ~IsSpace(At(s, k))})

\* end of the maximal run of characters outside stop that starts at j
RunEnd(s, j, stop) ==
  IF j >= Len(s) THEN j
  ELSE MinIndex({k \in j..Len(s) : k = Len(s) \/ At(s, k) \in stop})

\* The match of MACRO_RE at index i.  A capture group preceded by \s* is returned with
\* the whitespace the \s* took still in front: every use of a group trims it first.
MacroMatchAt(s, i) ==
  LET fail == [ok |-> FALSE, base |-> << >>, ann |-> << >>, hasPos |-> FALSE,
               pos |-> << >>, end |-> i]
      ws == SpaceRun(s, i + 3)
      b0 == ws + 2
      b1 == RunEnd(s, b0, {",", "}"})
      a0 == b1 + 1
      a1 == RunEnd(s, a0, {",", "}"})
      p0 == a1 + 1
      p1 == RunEnd(s, p0, {"}"})
  IN
  IF Slice(s, i, i + 3) # <<"{", "{", "renderer">> \/ ws = i + 3 THEN fail
  ELSE IF Slice(s, ws, ws + 2) # <<":ruby", ",">> THEN fail
  ELSE IF b1 = b0 \/ At(s, b1) # "," THEN fail
  ELSE IF a1 = a0 THEN fail
  ELSE IF At(s, a1) = "," /\ p1 > p0 /\ Slice(s, p1, p1 + 2) = <<"}", "}">>
    THEN [ok |-> TRUE, base |-> Slice(s, b0, b1), ann |-> Slice(s, a0, a1),
          hasPos |-> TRUE, pos |-> Slice(s, p0, p1), end |-> p1 + 2]
  ELSE IF Slice(s, a1, a1 + 2) = <<"}", "}">>
    THEN [ok |-> TRUE, base |-> Slice(s, b0, b1), ann |-> Slice(s, a0, a1),
          hasPos |-> FALSE, pos |-> << >>, end |-> a1 + 2]
  ELSE fail

\* String.prototype.toLowerCase on the model's alphabet
ToLower(s) == [k \in 1..Len(s) |-> IF s[k] = "UNDER" THEN "under" ELSE s[k]]

\* the template {{renderer :ruby, ${base}, ${ann}${posArg}}}
MacroCall(base, ann, under) ==
  <<"{", "{", "renderer", " ", ":ruby", ",", " ">> \o base \o <<",", " ">> \o ann
    \o (IF under THEN <<",", " ", "under">> ELSE << >>) \o <<"}", "}">>

\* ------------------------------------------------------------------------
\* The element tree of the reverse direction: DOMParser.parseFromString, the
\* queries and innerHTML as parser.ts 728-805 and 835-941 use them.
\* A node is a record: tag is "#text" for a text node (text holds its data) and
\* the element name otherwise (attrs holds the source of its attributes, kids
\* its children).
\* ------------------------------------------------------------------------

TextNode(t) == [tag |-> "#text", attrs |-> << >>, kids |-> << >>, text |-> t]
Element(tag, attrs, kids) == [tag |-> tag, attrs |-> attrs, kids |-> kids, text |-> << >>]

\* start tags: "<ruby" and "<span" are followed by attributes and ">"
OpenName(t) ==
  CASE t = "<ruby" -> "ruby"
    [] t = "<span" -> "span"
    [] t = "<rt>" -> "rt"
    [] t = "<rp>" -> "rp"
    [] t = "<rtc>" -> "rtc"
    [] OTHER -> "none"

CloseName(t) ==
  CASE t = "</ruby>" -> "ruby"
    [] t = "</span>" -> "span"
    [] t = "</rt>" -> "rt"
    [] t = "</rp>" -> "rp"
    [] t = "</rtc>" -> "rtc"
    [] OTHER -> "none"

CloseToken(tag) ==
  CASE tag = "ruby" -> "</ruby>"
    [] tag = "span" -> "</span>"
    [] tag = "rt" -> "</rt>"
    [] tag = "rp" -> "</rp>"
    [] OTHER -> "</rtc>"

AttrOpeners == {"class=\"", "style=\""}

\* index of the ">" that ends the start tag whose attributes begin at j (-1: none)
RECURSIVE TagEnd(_, _, _)
TagEnd(s, j, inQuote) ==
  IF j >= Len(s) THEN -1
  ELSE IF inQuote THEN TagEnd(s, j + 1, At(s, j) # "\"")
  ELSE IF At(s, j) = ">" THEN j
  ELSE TagEnd(s, j + 1, At(s, j) \in AttrOpeners)

\* character references in text: decoded by the parser, written back by innerHTML
DecodeEntity(t) ==
  CASE t = "&amp;" -> "&" [] t = "&lt;" -> "<" [] t = "&gt;" -> ">" [] OTHER -> t
EncodeText(t) ==
  CASE t = "&" -> "&amp;" [] t = "<" -> "&lt;" [] t = ">" -> "&gt;" [] OTHER -> t

IsMarkupToken(s, i) ==
  \/ CloseName(At(s, i)) # "none"
  \/ OpenName(At(s, i)) \in {"rt", "rp", "rtc"}
  \/ (OpenName(At(s, i)) \in {"ruby", "span"} /\ TagEnd(s, i + 1, FALSE) >= 0)

RECURSIVE TextRunEnd(_, _)
TextRunEnd(s, j) == IF j < Len(s) /\ ~IsMarkupToken(s, j) THEN TextRunEnd(s, j + 1) ELSE j

InStack(stack, name) == \E k \in 1..Len(stack) : stack[k] = name

\* The tree builder: the children parsed from index i inside the open elements
\* stack (innermost last); next is the index after the end tag that closed them.
RECURSIVE ParseKids(_, _, _, _)
ParseKids(s, i, stack, kids) ==
  IF i >= Len(s) THEN [kids |-> kids, next |-> i]
  ELSE
    LET t == At(s, i)
        cn == CloseName(t)
        on == OpenName(t)
        top == IF stack = << >> THEN "none" ELSE stack[Len(stack)]
    IN
    IF cn # "none" THEN
      IF top = cn THEN [kids |-> kids, next |-> i + 1]
      ELSE IF InStack(stack, cn) THEN [kids |-> kids, next |-> i]
      ELSE ParseKids(s, i + 1, stack, kids)
    ELSE IF IsMarkupToken(s, i) THEN
      IF on \in {"rt", "rp"} /\ top \in {"rt", "rp"} THEN [kids |-> kids, next |-> i]
      ELSE
        LET gt == IF on \in {"ruby", "span"} THEN TagEnd(s, i + 1, FALSE) ELSE i
            attrs == IF on \in {"ruby", "span"} THEN Slice(s, i + 1, gt) ELSE << >>
            sub == ParseKids(s, gt + 1, Append(stack, on), << >>)
        IN ParseKids(s, sub.next, stack, Append(kids, Element(on, attrs, sub.kids)))
    ELSE
      LET j == TextRunEnd(s, i)
          data == [k \in 1..(j - i) |-> DecodeEntity(At(s, i + k - 1))]
      IN ParseKids(s, j, stack, Append(kids, TextNode(data)))

\* new DOMParser().parseFromString("<div>" + html + "</div>", "text/html") and
\* doc.body.firstElementChild: the root div
ParseRoot(html) == Element("div", << >>, ParseKids(html, 0, << >>, << >>).kids)

\* element.innerHTML
RECURSIVE Serialize(_)
RECURSIVE InnerHTML(_)
Serialize(n) ==
  IF n.tag = "#text" THEN [k \in 1..Len(n.text) |-> EncodeText(n.text[k])]
  ELSE IF n.tag \in {"ruby", "span"}
    THEN <<IF n.tag = "ruby" THEN "<ruby" ELSE "<span">> \o n.attrs \o <<">">>
           \o InnerHTML(n) \o <<CloseToken(n.tag)>>
  ELSE <<IF n.tag = "rt" THEN "<rt>" ELSE IF n.tag = "rp" THEN "<rp>" ELSE "<rtc>">>
         \o InnerHTML(n) \o <<CloseToken(n.tag)>>
InnerHTML(n) == Flatten([k \in 1..Len(n.kids) |-> Serialize(n.kids[k])])

\* element.classList
RECURSIVE ClassRun(_, _)
ClassRun(attrs, j) ==
  IF j > Len(attrs) \/ attrs[j] = "\"" THEN {}
  ELSE (IF IsSpace(attrs[j]) THEN {} ELSE {attrs[j]}) \cup ClassRun(attrs, j + 1)

ClassList(n) ==
  IF \E k \in 1..Len(n.attrs) : n.attrs[k] = "class=\""
  THEN ClassRun(n.attrs, (CHOOSE k \in 1..Len(n.attrs) :
                            /\ n.attrs[k] = "class=\""
                            /\ \A m \in 1..(k - 1) : n.attrs[m] # "class=\"") + 1)
  ELSE {}

HasClass(n, c) == c \in ClassList(n)

\* the textContent of n after the removal of every descendant whose tag is in removed
\* (cloneNode(true), querySelectorAll(...).forEach(remove), textContent)
RECURSIVE TextWithout(_, _)
TextWithout(n, removed) ==
  IF n.tag = "#text" THEN n.text
  ELSE Flatten([k \in 1..Len(n.kids) |->
                  IF n.kids[k].tag \in removed THEN << >>
                  ELSE TextWithout(n.kids[k], removed)])

textContent(n) == TextWithout(n, {})

\* indices of the direct children with the tag, in order
directChildrenByTag(el, tag) ==
  LET F[k \in 0..Len(el.kids)] ==
        IF k = 0 THEN << >>
        ELSE IF el.kids[k].tag = tag THEN Append(F[k - 1], k) ELSE F[k - 1]
  IN F[Len(el.kids)]

HasDirectChild(el, tag) == directChildrenByTag(el, tag) # << >>
\* firstDirectChildByTag, where HasDirectChild holds
firstDirectChildByTag(el, tag) == el.kids[directChildrenByTag(el, tag)[1]]

\* The selectors of the three querySelectorAll calls
Matches(n, sel) ==
  CASE sel = "ruby" -> n.tag = "ruby"
    [] sel = "span.ls-ruby-bouten" -> n.tag = "span" /\ HasClass(n, "ls-ruby-bouten")
    [] OTHER -> n.tag = "span" /\ HasClass(n, "ls-ruby-underline")
                  /\ ~HasClass(n, "ls-ruby-bouten")

\* root.querySelectorAll(sel): the paths (child indices from the root) of the matching
\* descendants, in document order
RECURSIVE QueryFrom(_, _, _)
QueryFrom(n, path, sel) ==
  Flatten([k \in 1..Len(n.kids) |->
             (IF Matches(n.kids[k], sel) THEN <<Append(path, k)>> ELSE << >>)
               \o QueryFrom(n.kids[k], Append(path, k), sel)])

querySelectorAll(root, sel) == QueryFrom(root, << >>, sel)

\* An element of a query result is still in the document when no ancestor of it has
\* been replaced by a text node
RECURSIVE Attached(_, _)
Attached(n, path) ==
  IF path = << >> THEN n.tag # "#text"
  ELSE n.tag # "#text" /\ Head(path) <= Len(n.kids) /\ Attached(n.kids[Head(path)], Tail(path))

RECURSIVE NodeAt(_, _)
NodeAt(n, path) == IF path = << >> THEN n ELSE NodeAt(n.kids[Head(path)], Tail(path))

\* element.replaceWith(node)
RECURSIVE ReplaceAt(_, _, _)
ReplaceAt(n, path, new) ==
  IF path = << >> THEN new
  ELSE [n EXCEPT !.kids = [n.kids EXCEPT ![Head(path)] =
                             ReplaceAt(n.kids[Head(path)], Tail(path), new)]]

\* ------------------------------------------------------------------------
\* HTML -> markup and HTML -> macro: the reducers over the element tree
\* ------------------------------------------------------------------------

\* underlinePatternFromClasses; << >> stands for null
underlinePatternFromClasses(el) ==
  IF HasClass(el, "ls-ruby-underline-wavy") THEN <<".", "~">>
  ELSE IF HasClass(el, "ls-ruby-underline-double") THEN <<".", "=">>
  ELSE IF HasClass(el, "ls-ruby-underline") THEN <<".", "-">>
  ELSE << >>

\* directChildrenByTag(el, tag).map(n => (n.textContent ?? "").trim())
ChildTexts(el, tag) ==
  LET idx == directChildrenByTag(el, tag)
  IN [k \in 1..Len(idx) |-> Trim(textContent(el.kids[idx[k]]))]

\* array.filter(Boolean) on strings
FilterBoolean(parts) == SelectSeq(parts, LAMBDA t : t # << >>)

\* the template [${base}]${op}(${ann})
MarkupCall(base, op, ann) == <<"[">> \o base \o <<"]">> \o OpToken(op) \o ann \o <<")">>

\* base and rubyText of a mixed ruby, parser.ts 851-855 and 736-740
MixedBase(ruby) == Trim(TextWithout(ruby, {"rt", "rp"}))
MixedRubyText(ruby) ==
  IF HasDirectChild(ruby, "rt") THEN Trim(textContent(firstDirectChildByTag(ruby, "rt")))
  ELSE << >>

\* the levels of the inner ruby alone
NestedAnn_innerOnly(ruby) ==
  Join(FilterBoolean(ChildTexts(firstDirectChildByTag(ruby, "ruby"), "rt")), <<"|">>)
\* levels.join("|") of a double ruby, parser.ts 876-888 and 749-759
NestedAnn(ruby) ==
  LET innerRuby == firstDirectChildByTag(ruby, "ruby")
      outerRts == FilterBoolean(ChildTexts(ruby, "rt"))
      innerRts == FilterBoolean(ChildTexts(innerRuby, "rt"))
  IN Join(FilterBoolean(innerRts \o outerRts), <<"|">>)

NestedBase(ruby) == Trim(TextWithout(firstDirectChildByTag(ruby, "ruby"), {"rt", "rp"}))

\* levels.join("|") of a simple ruby, parser.ts 899-906 and 768-775
SimpleAnn(ruby) ==
  Join(FilterBoolean(ChildTexts(ruby, "rt") \o ChildTexts(ruby, "rtc")), <<"|">>)

SimpleBase(ruby) == Trim(TextWithout(ruby, {"rt", "rp", "rtc"}))

\* One iteration of the for loop of rubyHtmlToMarkup on an attached ruby: whether the
\* element is replaced, and the data of the text node that replaces it.
MarkupOfRuby(ruby) ==
  IF HasClass(ruby, "ls-ruby-mixed") THEN
    LET base == MixedBase(ruby)
        rubyText == MixedRubyText(ruby)
        rubyOp == IF HasClass(ruby, "ls-ruby-over") THEN OVER ELSE UNDER
        ulPat == underlinePatternFromClasses(ruby)
        decoMarkup ==
          IF ulPat # << >> THEN OpToken(UNDER) \o ulPat \o <<")">>
          ELSE IF HasClass(ruby, "ls-ruby-bouten-over") THEN OpToken(OVER) \o <<".", ".", ")">>
          ELSE IF HasClass(ruby, "ls-ruby-bouten-under") THEN OpToken(UNDER) \o <<".", ".", ")">>
          ELSE << >>
    IN IF base = << >> \/ rubyText = << >> THEN [replace |-> FALSE, text |-> << >>]
       ELSE [replace |-> TRUE, text |-> MarkupCall(base, rubyOp, rubyText) \o decoMarkup]
  ELSE IF HasDirectChild(ruby, "ruby") THEN
    LET ann == NestedAnn(ruby)
        base == NestedBase(ruby)
        innerOp == IF HasClass(firstDirectChildByTag(ruby, "ruby"), "ls-ruby-over")
                   THEN OVER ELSE UNDER
    IN [replace |-> TRUE, text |-> IF ann # << >> THEN MarkupCall(base, innerOp, ann) ELSE base]
  ELSE
    LET ann == SimpleAnn(ruby)
        base == SimpleBase(ruby)
        op == IF HasClass(ruby, "ls-ruby-under") THEN UNDER ELSE OVER
    IN [replace |-> TRUE, text |-> IF ann # << >> THEN MarkupCall(base, op, ann) ELSE base]

\* One iteration of the for loop of htmlElementsToMacro on an attached ruby
MacroOfRuby(ruby) ==
  IF HasClass(ruby, "ls-ruby-mixed") THEN
    LET base == MixedBase(ruby)
        rubyText == MixedRubyText(ruby)
    IN IF base = << >> \/ rubyText = << >> THEN [replace |-> FALSE, text |-> << >>]
       ELSE [replace |-> TRUE,
             text |-> MacroCall(base, rubyText, HasClass(ruby, "ls-ruby-under"))]
  ELSE IF HasDirectChild(ruby, "ruby") THEN
    LET ann == NestedAnn(ruby)
    IN [replace |-> ann # << >>,
        text |-> MacroCall(NestedBase(ruby), ann,
                           HasClass(firstDirectChildByTag(ruby, "ruby"), "ls-ruby-under"))]
  ELSE
    LET ann == SimpleAnn(ruby)
    IN [replace |-> ann # << >>,
        text |-> MacroCall(SimpleBase(ruby), ann, HasClass(ruby, "ls-ruby-under"))]

RubyStep(ruby, target) == IF target = "markup" THEN MarkupOfRuby(ruby) ELSE MacroOfRuby(ruby)

\* for (const ruby of rubies) { ... }: the snapshot is walked in order; an element whose
\* ancestor was replaced earlier in the walk is outside the document, so that whatever is
\* done to it leaves the document as it is.
RECURSIVE ForRubies(_, _, _)
ForRubies(root, rubies, target) ==
  IF rubies = << >> THEN root
  ELSE
    LET path == Head(rubies)
        r == IF Attached(root, path) /\ NodeAt(root, path).tag = "ruby"
             THEN RubyStep(NodeAt(root, path), target)
             ELSE [replace |-> FALSE, text |-> << >>]
    IN ForRubies(IF r.replace THEN ReplaceAt(root, path, TextNode(r.text)) ELSE root,
                 Tail(rubies), target)

\* The replacement of one span.ls-ruby-bouten, parser.ts 913-932 and 782-798
BoutenSpanStep(span, target) ==
  LET base == Trim(textContent(span))
      isOver == HasClass(span, "ls-ruby-bouten-over")
      isUnder == HasClass(span, "ls-ruby-bouten-under")
      ulPattern == underlinePatternFromClasses(span)
      dots == <<".", ".", ")">>
  IN
  IF target = "macro" THEN [replace |-> TRUE, text |-> MacroCall(base, <<".", ".">>, isUnder)]
  ELSE IF base = << >> THEN [replace |-> FALSE, text |-> << >>]
  ELSE [replace |-> TRUE, text |->
         IF ulPattern # << >> /\ isOver
           THEN MarkupCall(base, OVER, <<".", ".">>) \o OpToken(UNDER) \o ulPattern \o <<")">>
         ELSE IF ulPattern # << >> /\ isUnder
           THEN MarkupCall(base, UNDER, ulPattern) \o OpToken(OVER) \o dots
         ELSE IF isOver /\ isUnder
           THEN MarkupCall(base, OVER, <<".", ".">>) \o OpToken(UNDER) \o dots
         ELSE IF isUnder THEN MarkupCall(base, UNDER, <<".", ".">>)
         ELSE MarkupCall(base, OVER, <<".", ".">>)]

\* The replacement of one span.ls-ruby-underline:not(.ls-ruby-bouten), 934-938 and 800-804
UnderlineSpanStep(span, target) ==
  LET base == Trim(textContent(span))
      p == underlinePatternFromClasses(span)
      ulPat == IF p = << >> THEN <<".", "-">> ELSE p
  IN [replace |-> TRUE,
      text |-> IF target = "macro" THEN MacroCall(base, ulPat, TRUE)
               ELSE MarkupCall(base, UNDER, ulPat)]

RECURSIVE ForSpans(_, _, _, _)
ForSpans(root, spans, sel, target) ==
  IF spans = << >> THEN root
  ELSE
    LET path == Head(spans)
        r == IF Attached(root, path)
             THEN IF sel = "span.ls-ruby-bouten" THEN BoutenSpanStep(NodeAt(root, path), target)
                  ELSE UnderlineSpanStep(NodeAt(root, path), target)
             ELSE [replace |-> FALSE, text |-> << >>]
    IN ForSpans(IF r.replace THEN ReplaceAt(root, path, TextNode(r.text)) ELSE root,
                Tail(spans), sel, target)

\* The two span loops that follow the ruby loop
SpanLoops(root, target) ==
  LET r1 == ForSpans(root, querySelectorAll(root, "span.ls-ruby-bouten"),
                     "span.ls-ruby-bouten", target)
  IN ForSpans(r1, querySelectorAll(r1, "span.ls-ruby-underline:not(.ls-ruby-bouten)"),
              "span.ls-ruby-underline:not(.ls-ruby-bouten)", target)

\* ------------------------------------------------------------------------
\* markupToMacro, parser.ts 657-726
\* ------------------------------------------------------------------------

RECURSIVE MacroLoop(_, _, _, _)
MacroLoop(input, i, out, re) ==
  IF i >= Len(input) THEN [out |-> out, last |-> re]
  ELSE
    LET opStart == OpRegexExec(input, AssignLastIndex(re, i)) IN
    IF opStart < 0 THEN [out |-> out \o SliceFrom(input, i), last |-> 0]
    ELSE
      LET op == IF At(input, opStart + 1) = "^" THEN OVER ELSE UNDER
          consumedFrom == i
          baseStart == BaseStartOf(input, opStart, consumedFrom)
          baseHtml == BaseHtmlOf(input, opStart, consumedFrom)
          annStart == opStart + 3
          annEnd == findCloseParen(input, annStart)
          rawAnn == Slice(input, annStart, annEnd)
      IN
      IF baseStart < consumedFrom \/ baseStart < 0 \/ Len(baseHtml) = 0
        THEN MacroLoop(input, opStart + 1, out \o Slice(input, i, opStart + 1), annStart)
      ELSE IF annEnd < 0
        THEN [out |-> out \o SliceFrom(input, i), last |-> annStart]
      ELSE IF Len(rawAnn) = 0
        THEN MacroLoop(input, annEnd + 1, out \o Slice(input, i, annEnd + 1), annStart)
      ELSE MacroLoop(input, annEnd + 1,
                     out \o Slice(input, consumedFrom, baseStart)
                         \o MacroCall(unescape(baseHtml), unescape(rawAnn), op = UNDER),
                     annStart)

markupToMacro(input, re) ==
  IF ~hasRuby(input) THEN [out |-> input, last |-> re] ELSE MacroLoop(input, 0, << >>, re)

\* ------------------------------------------------------------------------
\* renderMacroRuby, parser.ts 1007-1022.  args is the argument list; the result is
\* [ok, html], ok = FALSE standing for null.
\* ------------------------------------------------------------------------

renderMacroRuby(args) ==
  IF Len(args) < 3 THEN [ok |-> FALSE, html |-> << >>]
  ELSE
    LET base == Trim(args[2])
        rawAnn == Trim(args[3])
        posArg == ToLower(Trim(IF Len(args) >= 4 THEN args[4] ELSE << >>))
        op == IF posArg = <<"under">> THEN UNDER ELSE OVER
        macroUlStyle == UlStyleOf(op, rawAnn)
    IN
    IF base = << >> \/ rawAnn = << >> THEN [ok |-> FALSE, html |-> << >>]
    ELSE IF rawAnn = BOUTEN_PATTERN THEN [ok |-> TRUE, html |-> renderBouten(base, op)]
    ELSE IF macroUlStyle # "null" THEN [ok |-> TRUE, html |-> renderUnderline(base, macroUlStyle)]
    ELSE [ok |-> TRUE,
          html |-> renderRuby(base, op, MapUnescape(splitByUnescapedPipe(rawAnn)))]

\* ------------------------------------------------------------------------
\* result.replace(MACRO_RE, callback) of anyToMarkup (614-621) and anyToHTML (817-821)
\* ------------------------------------------------------------------------

\* the callback of anyToMarkup
MacroToMarkup(s, m) ==
  LET b == Trim(m.base)
      a == Trim(m.ann)
      p == ToLower(Trim(m.pos))
  IN IF b = << >> \/ a = << >> THEN Slice(s, m.start, m.end)
     ELSE MarkupCall(b, IF p = <<"under">> THEN UNDER ELSE OVER, a)

\* the callback of anyToHTML
MacroToHTML(s, m) ==
  LET r == renderMacroRuby(IF m.hasPos THEN <<<<":ruby">>, m.base, m.ann, m.pos>>
                           ELSE <<<<":ruby">>, m.base, m.ann>>)
  IN IF r.ok THEN r.html ELSE Slice(s, m.start, m.end)

\* s.replace(MACRO_RE, callback): the matches are taken from left to right, each search
\* starting where the previous match ended; at is the index of the next match (-1: none)
RECURSIVE ReplaceMacros(_, _, _, _)
ReplaceMatch(s, i, out, target, at) ==
  IF at < 0 THEN out \o SliceFrom(s, i)
  ELSE
    LET m == MacroMatchAt(s, at)
        mm == [base |-> m.base, ann |-> m.ann, hasPos |-> m.hasPos, pos |-> m.pos,
               start |-> at, end |-> m.end]
    IN ReplaceMacros(s, m.end,
                     out \o Slice(s, i, at)
                         \o (IF target = "markup" THEN MacroToMarkup(s, mm)
                             ELSE MacroToHTML(s, mm)),
                     target)
ReplaceMacros(s, i, out, target) ==
  ReplaceMatch(s, i, out, target,
               MinIndex({k \in i..(Len(s) - 1) : MacroMatchAt(s, k).ok}))

\* ------------------------------------------------------------------------
\* The public conversions
\* ------------------------------------------------------------------------

\* result.includes("<ruby") || result.includes("ls-ruby")
LsRubyTokens ==
  {"<ruby", "ls-ruby", "ls-ruby-over", "ls-ruby-under", "ls-ruby-double", "ls-ruby-mixed",
   "ls-ruby-bouten", "ls-ruby-bouten-over", "ls-ruby-bouten-under", "ls-ruby-underline",
   "ls-ruby-underline-wavy", "ls-ruby-underline-double"}

IncludesRubyHtml(text) == \E k \in 1..Len(text) : text[k] \in LsRubyTokens

\* parser.ts 348-350
hasAnyRubyContent(text) ==
  \/ hasRuby(text)
  \/ IncludesRubyHtml(text)
  \/ Includes(text, <<"{", "{", "renderer", " ", ":ruby">>)

\* anyToHTML, parser.ts 811-829, called when the shared regex holds lastIndex re
\* the test hasRuby(result) of 824 is the one rubyToHTML itself starts with (593)
RestoreRun(r, tokens) == [out |-> restoreCode(r.out, tokens), last |-> r.last]
AnyToHTMLOf(safe, re) ==
  RestoreRun(RubyToHTMLRun(ReplaceMacros(safe.result, 0, << >>, "html"), re), safe.tokens)
AnyToHTMLRun(content, re) == AnyToHTMLOf(protectCode(content), re)

\* anyToHTML called alone
anyToHTML(content) == AnyToHTMLRun(content, 0).out

\* anyToMarkup up to the entry of the reducer, parser.ts 609-621
MarkupPrefix(content) == ReplaceMacros(protectCode(content).result, 0, << >>, "markup")

\* anyToMacro up to the entry of the reducer, parser.ts 636-642, called when the
\* shared regex holds lastIndex re
MacroPrefix(content, re) ==
  LET safe == protectCode(content).result
  IN IF hasRuby(safe) THEN markupToMacro(safe, re) ELSE [out |-> safe, last |-> re]

\* ------------------------------------------------------------------------
\* The state machine: one block of text and the conversions applied to it
\* ------------------------------------------------------------------------

VARIABLES
  par,     \* the shape of the input text: family and parts
  input,   \* the text the block held at first
  text,    \* the text of the block now
  log,     \* the conversions that have returned, in order
  pc,      \* "idle", or the position inside a reducer
  root,    \* the <div> tree of the running reducer
  rubies,  \* the snapshot of querySelectorAll("ruby") of the running reducer
  tokens,  \* the code spans protectCode saved for the running conversion
  scan,    \* the locals of the running rubyToHTML: result, pass, i, out
  lastIndex \* OP_REGEX.lastIndex: the cursor of the regex every conversion shares

vars == <<par, input, text, log, pc, root, rubies, tokens, scan, lastIndex>>

\* Bounds
MaxBaseLen == 2
MaxCalls == 2

NoRoot == Element("none", << >>, << >>)
NoScan == [result |-> << >>, pass |-> 0, i |-> 0, out |-> << >>]

\* ---- the texts the conversions are applied to

Bracket(a) == <<"[">> \o a \o <<"]">>
Ann(op, x) == OpToken(op) \o x \o <<")">>
\* [a]op(x)
Single(a, op, x) == Bracket(a) \o Ann(op, x)
\* [a]op(x|y)
Pipe(a, op, x, y) == Bracket(a) \o Ann(op, x \o <<"|">> \o y)
\* [a]op(x)op'(y), op' the other operator
Chain(a, op, x, y) == Bracket(a) \o Ann(op, x) \o Ann(Opposite(op), y)

BaseAlphabet == {"a", "b"}
Bases == UNION {[1..n -> BaseAlphabet] : n \in 1..MaxBaseLen}

\* contents: ordinary text, space-separated parts, decoration markers, backslash escapes
PlainContents == {<<"x">>, <<"y">>, <<"a">>, <<"x", " ", "y">>, <<"a", " ", "x">>}
Markers == {<<".", ".">>, <<".", "-">>, <<".", "~">>, <<".", "=">>}
EscapedContents == {<<"\\", ".", "\\", ".">>, <<"x", "\\", ")">>, <<"x", "\\", "|", "y">>,
                    <<"\\", ".", "-">>}
Contents == PlainContents \cup Markers \cup EscapedContents

Par(fam, form, a, op, x, y, z) ==
  [fam |-> fam, form |-> form, a |-> a, op |-> op, x |-> x, y |-> y, z |-> z]

None == << >>

\* ---- texts for the forward direction alone (rubyToHTML)

\* the chained forms [a]op(x)op'(y), read also as the pipe form [a]op(x|y)
ChainPars == {Par("chain", "chain", a, op, x, y, None) :
                a \in Bases, op \in RubyOp, x \in Contents, y \in Contents}

\* the same operator twice: [a]op(x)op(y)
SameOpPars == {Par("sameop", "sameop", a, op, x, y, None) :
                 a \in Bases, op \in RubyOp, x \in PlainContents \cup Markers,
                 y \in PlainContents \cup Markers}

\* pipe levels followed by a chained operator: [a]op(x|y)op'(z)
ChainedContents == {<<"z">>, <<"z", " ", "w">>, <<".", ".">>, <<".", "~">>}
SaturatedPars == {Par("saturated", "saturated", a, op, x, y, z) :
                    a \in Bases, op \in RubyOp, x \in Contents,
                    y \in PlainContents \cup Markers, z \in ChainedContents}

\* three pipe parts: [a]op(x|y|z)
ThirdParts == {<<"z">>, <<".", ".">>}
CapPars == {Par("cap", "cap", a, op, x, y, z) :
              a \in Bases, op \in RubyOp, x \in PlainContents \cup Markers,
              y \in PlainContents \cup Markers, z \in ThirdParts}

\* operator occurrences with a zero-length base or a zero-length content
MalformedForms == {"emptybrackets", "afterspace", "atstart", "afteropen", "afterclose",
                   "emptycontent", "bareemptycontent"}
Malformed(form, a, op, x) ==
  CASE form = "emptybrackets" -> <<"[", "]">> \o Ann(op, x)
    [] form = "afterspace" -> a \o <<" ">> \o Ann(op, x)
    [] form = "atstart" -> Ann(op, x)
    [] form = "afteropen" -> <<"[">> \o Ann(op, x)
    [] form = "afterclose" -> <<"]">> \o Ann(op, x)
    [] form = "emptycontent" -> Bracket(a) \o Ann(op, << >>)
    [] form = "bareemptycontent" -> a \o Ann(op, << >>)
    [] OTHER -> Single(<<"c">>, op, x)
\* one malformed occurrence, or one followed after z by a second occurrence, malformed
\* or well-formed
Separators == {<<" ">>, <<"\n">>}
MalformedPars ==
  {Par("malformed", f, a, op, x, None, None) :
     f \in MalformedForms, a \in Bases, op \in RubyOp, x \in PlainContents \cup Markers}
  \cup {Par("malformed2", f, a, op, <<"x">>, <<g>>, z) :
          f \in MalformedForms, g \in (MalformedForms \ {"atstart"}) \cup {"wellformed"},
          a \in Bases, op \in RubyOp, z \in Separators}

\* content that is not closed on its line, then a well-formed annotation
UnterminatedForms == {"lf", "cr"}
UnterminatedPars ==
  {Par("unterminated", f, a, op, x, y, None) :
     f \in UnterminatedForms, a \in Bases, op \in RubyOp, x \in {<<"x">>, <<"x", "\\", ")">>},
     y \in {<<"y">>, <<".", ".">>}}

\* brackets nested d deep, every level annotated: [[a]op(x)]op(x)
MaxDepth == 6
RECURSIVE Nest(_, _, _, _)
Nest(d, a, op, x) == IF d = 0 THEN a ELSE Single(Nest(d - 1, a, op, x), op, x)
NestPars == {Par("nest", d, <<"a">>, op, x, None, None) :
               d \in 1..MaxDepth, op \in RubyOp, x \in {<<"x">>, <<".", ".">>}}

RenderPars == ChainPars \cup SameOpPars \cup SaturatedPars \cup CapPars \cup MalformedPars
                \cup UnterminatedPars

\* ---- texts for the conversions between the three formats

RoundTripForms == {"single", "bare", "inline", "nested", "pipe", "chain"}
RoundTripBases == {<<"a">>, <<"a", "b">>, <<" ">>}
RoundTripContents == {<<"x">>, <<"x", " ", "y">>, <<"a", " ", "x">>, <<".", ".">>, <<".", "-">>,
                      <<"x", "\\", ")">>, <<"x", "&", "y">>}
RoundTripSeconds == {<<"y">>, <<"x", " ", "y">>, <<".", ".">>, <<".", "~">>}
RoundTripPars ==
  {Par("roundtrip", f, a, op, x, None, None) :
     f \in {"single", "bare", "inline", "nested"}, a \in RoundTripBases, op \in RubyOp,
     x \in RoundTripContents}
  \cup {Par("roundtrip", f, a, op, x, y, None) :
          f \in {"pipe", "chain"}, a \in RoundTripBases, op \in RubyOp,
          x \in RoundTripContents, y \in RoundTripSeconds}

\* text around and inside code spans
CodeForms == {"inline", "fenced"}
Fence(form) == IF form = "inline" THEN <<TICK>> ELSE <<TICK, TICK, TICK>>
CodeSpan(form, x) == Fence(form) \o x \o Fence(form)
CodeTexts ==
  {<<"y">>, Single(<<"a">>, OVER, <<"x">>), MacroCall(<<"a">>, <<"x">>, FALSE),
   RubyElement("ls-ruby-over", <<"a">>, <<"x">>), <<Placeholder(0)>>, <<Placeholder(1)>>}
CodePars ==
  {Par("code", f, None, OVER, x, y, z) :
     f \in CodeForms, x \in CodeTexts,
     y \in {None, <<"y">>, Single(<<"a">>, OVER, <<"x">>)},
     z \in {<<"p">>, Single(<<"b">>, UNDER, <<"y">>), MacroCall(<<"b">>, <<"y">>, TRUE),
            RubyElement("ls-ruby-under", <<"b">>, <<"y">>)}}

\* rendered elements written by hand or kept from an earlier conversion
HtmlForms == {"emptyrt", "blankmixed", "group", "aligned"}
HtmlPars ==
  {Par("html", f, a, op, x, None, None) :
     f \in HtmlForms, a \in {<<"a">>, <<"a", "b">>}, op \in RubyOp,
     x \in {<<"x">>, <<"a", " ", "x">>}}

DocPars == RoundTripPars \cup CodePars

\* texts for the scan of rubyToHTML taken step by step
ScanPars ==
  NestPars
    \cup {p \in ChainPars \cup SameOpPars \cup MalformedPars \cup UnterminatedPars :
            p.a = <<"a">> /\ p.op = OVER}

\* one annotation whose slots are filled in every way the syntax offers: [a]op(x), [a]op(x|y),
\* [a]op(x)op'(y) and the macro call with x as its annotation argument
SlotForms == {"single", "pipe", "chain", "macro"}
SlotBases == {<<"a">>, <<"a", "b">>}
SlotContents ==
  {<<"x">>, <<"x", " ", "y">>, <<"a", " ", "x">>, <<"x", "\t", "y">>, <<"a", "\t", "x">>,
   <<".">>,
   <<"\\", ".", "\\", ".">>, <<"\\", ".", "-">>}
    \cup Markers
SlotPars ==
  {Par("slot", f, a, op, x, None, None) :
     f \in {"single", "macro"}, a \in SlotBases, op \in RubyOp, x \in SlotContents}
  \cup {Par("slot", f, a, op, x, y, None) :
          f \in {"pipe", "chain"}, a \in SlotBases, op \in RubyOp,
          x \in SlotContents, y \in SlotContents}

\* the argument lists of a macro call: :ruby and up to three more, some blank, some holding
\* markup; form is the number of arguments
MaxArgs == 4
MacroBases == {<<"a">>, <<" ", "a", " ">>, <<" ">>, <<"\t">>, << >>, Single(<<"a">>, OVER, <<"x">>)}
MacroAnns == {<<"x">>, <<".", ".">>, <<" ">>, << >>, Single(<<"b">>, UNDER, <<"y">>)}
MacroPositions == {<<"under">>, <<"UNDER">>, <<"over">>}
MacroArgPars ==
  {Par("margs", n, a, OVER, x, y, None) :
     n \in 1..MaxArgs, a \in MacroBases, x \in MacroAnns, y \in MacroPositions}
ArgsOf(p) == SubSeq(<<<<":ruby">>, p.a, p.x, p.y>>, 1, p.form)
\* {{renderer :ruby, arg, ...}}
MacroText(args) ==
  <<"{", "{", "renderer", " ">>
    \o Flatten([k \in 1..Len(args) |-> (IF k = 1 THEN << >> ELSE <<",", " ">>) \o args[k]])
    \o <<"}", "}">>

\* texts for sequences of calls: some leave an operator in the text a call returns
CallPars ==
  {p \in UnterminatedPars : p.a = <<"a">> /\ p.op = OVER}
    \cup {p \in MalformedPars :
            p.fam = "malformed" /\ p.a = <<"a">> /\ p.op = OVER /\ p.x = <<"x">>}
    \cup {p \in RoundTripPars :
            p.form \in {"single", "inline"} /\ p.a = <<"a">> /\ p.op = OVER}

\* brackets nested p.form deep with text p.y beside every inner annotation, as in
\* [[a]^^(x)b]^_(x); the levels carry one operator, or the two in turn (p.z)
NestSiblings == {None, <<"b">>}
NestOps == {<<"same">>, <<"alternate">>}
LevelOp(p, k) == IF p.z = <<"alternate">> /\ k % 2 = 0 THEN Opposite(p.op) ELSE p.op
\* the single-level rendering of base with the annotation x, parser.ts 538-539 and 577
RenderOne(base, op, x) ==
  IF x = BOUTEN_PATTERN THEN renderBouten(base, op) ELSE renderRuby(base, op, <<x>>)
\* level k of the text with its done innermost levels rendered
RECURSIVE NestedLevel(_, _, _)
NestedLevel(p, k, done) ==
  IF k = 0 THEN p.a
  ELSE IF k <= done
    THEN RenderOne(NestedLevel(p, k - 1, done) \o (IF k > 1 THEN p.y ELSE << >>),
                   LevelOp(p, k), p.x)
  ELSE Single(NestedLevel(p, k - 1, done) \o (IF k > 1 THEN p.y ELSE << >>),
              LevelOp(p, k), p.x)
NestedPars ==
  {Par("nested", d, <<"a">>, op, x, y, z) :
     d \in 1..MaxDepth, op \in RubyOp, x \in {<<"x">>, <<".", ".">>}, y \in NestSiblings,
     z \in NestOps}

\* a delimiter p.a behind the run of backslashes p.x, in the content ("|", ")") or in the
\* base ("[", "]") of an annotation; the nested form sets the annotation and the text c in
\* the bracket of an outer annotation
MaxSlashes == 3
Delimiters == {"|", ")", "[", "]"}
Slashes(n) == [k \in 1..n |-> "\\"]
EscapeCore(p) ==
  CASE p.a = <<"[">> -> <<"[", "a">> \o p.x \o <<"[", "b", "]">> \o Ann(p.op, <<"x">>)
    [] p.a = <<"]">> -> <<"a">> \o p.x \o <<"]">> \o Ann(p.op, <<"x">>)
    [] OTHER -> Single(<<"a">>, p.op, <<"x">> \o p.x \o p.a \o <<"y">>)
EscapeText(p) ==
  IF p.form = "nested"
  THEN Single(EscapeCore(p) \o <<"c">>, Opposite(p.op), <<"z">>)
  ELSE (IF p.a = <<"]">> THEN <<"[">> ELSE << >>) \o EscapeCore(p)
EscapePars ==
  {Par("escape", "single", <<ch>>, op, Slashes(n), None, None) :
     ch \in Delimiters, op \in RubyOp, n \in 0..MaxSlashes}
  \cup {Par("escape", "nested", <<ch>>, op, Slashes(1), None, None) :
          ch \in Delimiters, op \in RubyOp}

\* backslash escapes in the base and in the annotation text, on every rendering path
UnescapeForms == {"single", "bare", "pipe", "chain", "bouten", "mixed", "nested"}
UnescapeBases == {<<"a", "\\", "\\", "b">>, <<"\\", "a", "b">>}
UnescapeContents == {<<"x", "\\", "\\", "y">>, <<"\\", "x">>, <<"x", "\\", ")">>,
                     <<"x", "\\", "\\", " ", "y">>}
UnescapeSeconds == {<<"y">>, <<"y", "\\", "\\">>}
UnescapeText(p) ==
  CASE p.form = "single" -> Single(p.a, p.op, p.x)
    [] p.form = "bare" -> p.a \o Ann(p.op, p.x)
    [] p.form = "pipe" -> Pipe(p.a, p.op, p.x, p.y)
    [] p.form = "chain" -> Chain(p.a, p.op, p.x, p.y)
    [] p.form = "bouten" -> Single(p.a, p.op, BOUTEN_PATTERN)
    [] p.form = "mixed" -> Chain(p.a, p.op, BOUTEN_PATTERN, p.x)
    [] OTHER -> Single(Single(p.a, p.op, p.x) \o <<"c">>, Opposite(p.op), <<"z">>)
UnescapePars ==
  {Par("unescape", f, a, op, x, None, None) :
     f \in UnescapeForms \ {"pipe", "chain"}, a \in UnescapeBases, op \in RubyOp,
     x \in UnescapeContents}
  \cup {Par("unescape", f, a, op, x, y, None) :
          f \in {"pipe", "chain"}, a \in UnescapeBases, op \in RubyOp,
          x \in UnescapeContents, y \in UnescapeSeconds}

\* blocks for the gate of the conversion commands: macro calls written with the whitespace
\* MACRO_RE accepts (y after the word renderer, z after the commas), and text without
\* annotations
GateSpaces == {<<" ">>, <<" ", " ">>, <<"\t">>, <<"\n">>}
GatePlain ==
  {<<"p">>, <<"a", "^", "^", "x">>, <<"{", "{", "renderer", " ", "x", "}", "}">>,
   <<"p", " ", TICK, "y", TICK>>, <<"[", "a", "]", "(", "x", ")">>}
GateText(p) ==
  IF p.form = "plain" THEN p.a
  ELSE <<"{", "{", "renderer">> \o p.y \o <<":ruby", ",">> \o p.z \o p.a \o <<",">> \o p.z
         \o p.x \o (IF p.op = UNDER THEN <<",", " ", "under">> ELSE << >>) \o <<"}", "}">>
GatePars ==
  {Par("gate", "macro", a, op, <<"x">>, y, z) :
     a \in {<<"a">>, <<"a", "b">>}, op \in RubyOp, y \in GateSpaces, z \in {None, <<" ">>}}
  \cup {Par("gate", "plain", a, OVER, None, None, None) : a \in GatePlain}

\* one single-level annotation [a]op(x) for the way to the macro form and back: a and x
\* without backslash, bracket, parenthesis, pipe, brace, backtick and outer whitespace
MacroTripBases == {<<"a">>, <<"a", " ", "b">>, <<"a", ",", "b">>, <<"&">>, <<".", ".">>}
MacroTripContents ==
  {<<"x">>, <<"x", " ", "y">>, <<"x", ",", "y">>, <<".", ".">>, <<".", "-">>, <<"under">>}
MacroTripPars ==
  {Par("macrotrip", "single", a, op, x, None, None) :
     a \in MacroTripBases, op \in RubyOp, x \in MacroTripContents}

InputOf(p) ==
  CASE p.fam = "chain" -> Chain(p.a, p.op, p.x, p.y)
    [] p.fam = "unescape" -> UnescapeText(p)
    [] p.fam = "gate" -> GateText(p)
    [] p.fam = "macrotrip" -> Single(p.a, p.op, p.x)
    [] p.fam = "escape" -> EscapeText(p)
    [] p.fam = "nested" -> NestedLevel(p, p.form, 0)
    [] p.fam = "margs" -> MacroText(ArgsOf(p))
    [] p.fam = "slot" ->
         (CASE p.form = "single" -> Single(p.a, p.op, p.x)
            [] p.form = "pipe" -> Pipe(p.a, p.op, p.x, p.y)
            [] p.form = "chain" -> Chain(p.a, p.op, p.x, p.y)
            [] OTHER -> MacroCall(p.a, p.x, p.op = UNDER))
    [] p.fam = "nest" -> Nest(p.form, p.a, p.op, p.x)
    [] p.fam = "sameop" -> Bracket(p.a) \o Ann(p.op, p.x) \o Ann(p.op, p.y)
    [] p.fam = "saturated" -> Pipe(p.a, p.op, p.x, p.y) \o Ann(Opposite(p.op), p.z)
    [] p.fam = "cap" -> Pipe(p.a, p.op, p.x, p.y \o <<"|">> \o p.z)
    [] p.fam = "malformed" -> Malformed(p.form, p.a, p.op, p.x)
    [] p.fam = "malformed2" ->
         Malformed(p.form, p.a, p.op, p.x) \o p.z \o Malformed(p.y[1], p.a, p.op, p.x)
    [] p.fam = "unterminated" ->
         p.a \o OpToken(p.op) \o p.x
           \o (IF p.form = "lf" THEN <<"\n">> ELSE <<"\r">>)
           \o Single(<<"c">>, p.op, p.y)
    [] p.fam = "roundtrip" ->
         (CASE p.form = "single" -> Single(p.a, p.op, p.x)
            [] p.form = "bare" -> p.a \o Ann(p.op, p.x)
            [] p.form = "inline" -> <<"p", " ">> \o Single(p.a, p.op, p.x) \o <<" ", "q">>
            [] p.form = "nested" ->
                 Bracket(Single(p.a, OVER, <<"x">>) \o <<"b">>) \o Ann(p.op, p.x)
            [] p.form = "pipe" -> Pipe(p.a, p.op, p.x, p.y)
            [] OTHER -> Chain(p.a, p.op, p.x, p.y))
    [] p.fam = "code" ->
         p.z \o <<" ">> \o CodeSpan(p.form, p.x)
           \o (IF p.y = None THEN << >> ELSE <<" ">> \o CodeSpan(p.form, p.y))
    [] OTHER ->
         (CASE p.form = "emptyrt" -> emptyRuby(p.a, PosOf(p.op))
            [] p.form = "blankmixed" -> renderRubyWithBouten(<<" ">>, p.x, p.op, Opposite(p.op))
            [] p.form = "group" -> RubyElement(PosOf(p.op), p.a, p.x)
            [] OTHER -> Single(p.a, p.op, p.x))

Start(pars) ==
  /\ par \in pars
  /\ input = InputOf(par)
  /\ text = input
  /\ log = << >>
  /\ pc = "idle"
  /\ root = NoRoot
  /\ rubies = << >>
  /\ tokens = << >>
  /\ scan = NoScan
  /\ lastIndex = 0

Init == Start(DocPars)
InitRender == Start(RenderPars)
InitReduce == Start(HtmlPars)
InitScan == Start(ScanPars)
InitSlots == Start(SlotPars)
InitMacro == Start(MacroArgPars)
InitCalls == Start(CallPars)
InitNested == Start(NestedPars)
InitEscape == Start(EscapePars \cup UnescapePars)

\* ---- the conversions

Returns(fn, value) ==
  /\ text' = value
  /\ log' = Append(log, fn)
  /\ pc' = "idle"
  /\ root' = NoRoot
  /\ rubies' = << >>
  /\ tokens' = << >>
  /\ scan' = NoScan

CanCall == pc = "idle" /\ Len(log) < MaxCalls

\* rubyToHTML(text), parser.ts 592-602
RubyToHTMLCall ==
  /\ CanCall
  /\ \E r \in {RubyToHTMLRun(text, lastIndex)} :
       Returns("rubyToHTML", r.out) /\ lastIndex' = r.last
  /\ UNCHANGED <<par, input>>

\* anyToHTML(text), parser.ts 811-829
AnyToHTMLCall ==
  /\ CanCall
  /\ \E r \in {AnyToHTMLRun(text, lastIndex)} :
       Returns("anyToHTML", r.out) /\ lastIndex' = r.last
  /\ UNCHANGED <<par, input>>

\* The entry of a reducer: the tree is parsed and the rubies are queried (838-844,
\* 646-649 and 729), or the conversion returns at once when the text holds no element.
Enter(fn, target, pre, saved) ==
  IF IncludesRubyHtml(pre)
  THEN /\ pc' = IF target = "markup" THEN "markup_while" ELSE "macro_while"
       /\ root' = ParseRoot(pre)
       /\ rubies' = querySelectorAll(ParseRoot(pre), "ruby")
       /\ tokens' = saved
       /\ UNCHANGED <<text, log, scan>>
  ELSE Returns(fn, restoreCode(pre, saved))

\* while (rubies.length > 0): the body is entered, or the loop is left, the two
\* span loops run and the conversion returns root.innerHTML with the code restored
While(fn, target) ==
  IF rubies # << >>
  THEN /\ pc' = IF target = "markup" THEN "markup_for" ELSE "macro_for"
       /\ UNCHANGED <<text, log, root, rubies, tokens, scan>>
  ELSE Returns(fn, restoreCode(InnerHTML(SpanLoops(root, target)), tokens))

\* for (const ruby of rubies) { ... }; rubies = Array.from(root.querySelectorAll("ruby"))
For(target) ==
  /\ root' = ForRubies(root, rubies, target)
  /\ rubies' = querySelectorAll(ForRubies(root, rubies, target), "ruby")
  /\ pc' = IF target = "markup" THEN "markup_while" ELSE "macro_while"
  /\ UNCHANGED <<text, log, tokens, scan>>

\* anyToMarkup(text), parser.ts 608-629, up to the loop of rubyHtmlToMarkup
AnyToMarkupCall ==
  /\ CanCall
  /\ Enter("anyToMarkup", "markup", MarkupPrefix(text), protectCode(text).tokens)
  /\ UNCHANGED <<par, input, lastIndex>>

\* parser.ts 845 and 913-940, 628
MarkupWhile ==
  /\ pc = "markup_while"
  /\ While("anyToMarkup", "markup")
  /\ UNCHANGED <<par, input, lastIndex>>

\* parser.ts 846-910
MarkupFor ==
  /\ pc = "markup_for"
  /\ For("markup")
  /\ UNCHANGED <<par, input, lastIndex>>

\* anyToMacro(text), parser.ts 635-655, up to the loop of htmlElementsToMacro
AnyToMacroCall ==
  /\ CanCall
  /\ \E r \in {MacroPrefix(text, lastIndex)} :
       /\ Enter("anyToMacro", "macro", r.out, protectCode(text).tokens)
       /\ lastIndex' = r.last
  /\ UNCHANGED <<par, input>>

\* parser.ts 730 and 782-804, 650-654
MacroWhile ==
  /\ pc = "macro_while"
  /\ While("anyToMacro", "macro")
  /\ UNCHANGED <<par, input, lastIndex>>

\* parser.ts 731-779
MacroFor ==
  /\ pc = "macro_for"
  /\ For("macro")
  /\ UNCHANGED <<par, input, lastIndex>>

Next ==
  \/ RubyToHTMLCall
  \/ AnyToHTMLCall
  \/ AnyToMarkupCall
  \/ MarkupWhile
  \/ MarkupFor
  \/ AnyToMacroCall
  \/ MacroWhile
  \/ MacroFor

NextRender == RubyToHTMLCall

\* ---- rubyToHTML step by step: the passes and the scan loop of each pass

\* parser.ts 592-594: the call, its early return and the locals of the loop
RubyToHTMLEnter ==
  /\ CanCall
  /\ IF ~hasRuby(text)
     THEN Returns("rubyToHTML", text)
     ELSE /\ pc' = "for"
          /\ scan' = [result |-> text, pass |-> 0, i |-> 0, out |-> << >>]
          /\ UNCHANGED <<text, log, root, rubies, tokens>>
  /\ UNCHANGED <<par, input, lastIndex>>

\* parser.ts 595-596 and 358-361: for (pass < 5), the call of rubyToHTMLPass and its
\* early return
RubyToHTMLFor ==
  /\ pc = "for"
  /\ IF scan.pass >= MaxPasses
     THEN Returns("rubyToHTML", scan.result)
     ELSE /\ pc' = IF hasRuby(scan.result) THEN "while" ELSE "passed"
          /\ scan' = [scan EXCEPT !.i = 0,
                                  !.out = IF hasRuby(scan.result) THEN << >> ELSE scan.result]
          /\ UNCHANGED <<text, log, root, rubies, tokens>>
  /\ UNCHANGED <<par, input, lastIndex>>

\* parser.ts 363-583: while (i < input.length), one iteration
RubyToHTMLWhile ==
  /\ pc = "while"
  /\ IF scan.i >= Len(scan.result)
     THEN pc' = "passed" /\ UNCHANGED <<scan, lastIndex>>
     ELSE LET s == WhileBody(scan.result, scan.i, scan.out, lastIndex) IN
          /\ pc' = IF s.brk THEN "passed" ELSE "while"
          /\ scan' = [scan EXCEPT !.i = s.i, !.out = s.out]
          /\ lastIndex' = s.last
  /\ UNCHANGED <<par, input, text, log, root, rubies, tokens>>

\* the loop without its pass++
RubyToHTMLPassed_samePass ==
  /\ pc = "passed"
  /\ IF scan.out = scan.result \/ ~hasRuby(scan.out)
     THEN Returns("rubyToHTML", scan.out)
     ELSE /\ pc' = "for"
          /\ scan' = [result |-> scan.out, pass |-> scan.pass, i |-> 0, out |-> << >>]
          /\ UNCHANGED <<text, log, root, rubies, tokens>>
  /\ UNCHANGED <<par, input, lastIndex>>
\* parser.ts 585 and 597-601: the pass returns out; next === result and
\* !hasRuby(result) leave the loop, otherwise pass++
RubyToHTMLPassed ==
  /\ pc = "passed"
  /\ IF scan.out = scan.result \/ ~hasRuby(scan.out)
     THEN Returns("rubyToHTML", scan.out)
     ELSE /\ pc' = "for"
          /\ scan' = [result |-> scan.out, pass |-> scan.pass + 1, i |-> 0, out |-> << >>]
          /\ UNCHANGED <<text, log, root, rubies, tokens>>
  /\ UNCHANGED <<par, input, lastIndex>>

NextScan ==
  \/ RubyToHTMLEnter
  \/ RubyToHTMLFor
  \/ RubyToHTMLWhile
  \/ RubyToHTMLPassed

\* every conversion of a block
Spec == Init /\ [][Next]_vars

\* the conversions of rendered elements; a conversion that has been called runs on
\* (the reducers are plain loops), so that its steps are taken whenever they can be
SpecReduce == InitReduce /\ [][Next]_vars
FairSpec == SpecReduce /\ WF_vars(MarkupWhile) /\ WF_vars(MarkupFor)
              /\ WF_vars(MacroWhile) /\ WF_vars(MacroFor)

\* the forward direction alone
SpecRender == InitRender /\ [][NextRender]_vars

\* the forward direction step by step
SpecScan == InitScan /\ [][NextScan]_vars

\* renderMacroRuby(args) on the arguments of the macro call, parser.ts 1007-1022; main.ts
\* 138-144 calls it when the macro is slotted
RenderMacroRubyCall ==
  /\ CanCall
  /\ par.fam = "margs"
  /\ LET r == renderMacroRuby(ArgsOf(par)) IN
       IF r.ok THEN Returns("renderMacroRuby", r.html)
       ELSE Returns("renderMacroRuby:null", text)
  /\ UNCHANGED <<par, input, lastIndex>>

\* nested brackets rendered step by step
SpecNested == InitNested /\ [][NextScan]_vars

\* sequences of calls of the four conversions
SpecCalls == InitCalls /\ [][Next]_vars

NextMacro ==
  \/ RenderMacroRubyCall
  \/ AnyToHTMLCall
SpecMacro == InitMacro /\ [][NextMacro]_vars

\* one annotation rendered from markup or from a macro call
NextSlots ==
  \/ RubyToHTMLCall
  \/ AnyToHTMLCall
SpecSlots == InitSlots /\ [][NextSlots]_vars

\* annotations with backslashes before their delimiters
SpecEscape == InitEscape /\ [][NextSlots]_vars

\* ------------------------------------------------------------------------
\* Properties
\* ------------------------------------------------------------------------

\* C1: anyToMarkup and anyToMacro terminate on every input: once a reducer has been
\* entered, its loop over the ruby elements ends and the conversion returns, also for
\* a tree that holds an element the reducer skips.
C1_ReducersTerminate == (pc # "idle") ~> (pc = "idle")

Returned(fam, fn) == par.fam = fam /\ pc = "idle" /\ log = <<fn>>

\* C2: chain order does not matter: rubyToHTML("[a]op(x)op'(y)") equals
\* rubyToHTML("[a]op'(y)op(x)") for every base and all non-empty contents.
C2_ChainOrder ==
  Returned("chain", "rubyToHTML")
    => text = rubyToHTML(Chain(par.a, Opposite(par.op), par.y, par.x))

\* C3: the pipe form is equivalent to the chain: rubyToHTML("[a]op(x|y)") equals
\* rubyToHTML("[a]op(x)op'(y)") for x and y without unescaped pipe or closing
\* parenthesis (ordinary text, decoration markers, text with backslash escapes).
C3_PipeEqualsChain ==
  Returned("chain", "rubyToHTML") => text = rubyToHTML(Pipe(par.a, par.op, par.x, par.y))

\* C4: a second operator of the same kind is never chained: the output of
\* "[a]op(x)op(y)" holds two independent single-level outputs (the rendering of
\* "[a]op(x)" stands in it as it is rendered alone) and no ls-ruby-double marker.
C4_SameOpNotChained ==
  Returned("sameop", "rubyToHTML")
    => LET first == rubyToHTML(Single(par.a, par.op, par.x))
       IN /\ Slice(text, 0, Len(first)) = first
          /\ ~HasToken(text, "ls-ruby-double")

\* C5: pipe saturation precedes chain: rubyToHTML("[a]op(x|y)op'(z)") equals
\* rubyToHTML("[a]op(x|y)"), and holds neither the text of the chained operator nor z.
C5_SaturationPrecedesChain ==
  Returned("saturated", "rubyToHTML")
    => /\ text = rubyToHTML(Pipe(par.a, par.op, par.x, par.y))
       /\ ~hasRuby(text)
       /\ (par.z \notin {par.x, par.y} => ~Includes(text, par.z))

\* a saturated annotation with a chained decoration marker has been rendered
C5_Witness ==
  /\ Returned("saturated", "rubyToHTML")
  /\ par.z = <<".", ".">>
  /\ par.x = <<"x">> /\ par.y = <<"y">>
  /\ HasToken(text, "ls-ruby-double")

\* C6: capacity cap of two levels: rubyToHTML("[a]op(p0|p1|p2)") equals
\* rubyToHTML("[a]op(p0|p1)") for all parts (ordinary text or decoration markers)
\* and the output does not carry p2.
C6_CapacityCap ==
  Returned("cap", "rubyToHTML")
    => /\ text = rubyToHTML(Pipe(par.a, par.op, par.x, par.y))
       /\ (par.z \notin {par.x, par.y} => ~Includes(text, par.z))

\* C10: unterminated content is a local non-match: the operator text stays in the
\* output as it is and the well-formed annotation on the following line is rendered.
C10_UnterminatedIsLocal ==
  Returned("unterminated", "rubyToHTML")
    => /\ Includes(text, par.a \o OpToken(par.op) \o par.x)
       /\ Includes(text, rubyToHTML(Single(<<"c">>, par.op, par.y)))

\* C9: malformed occurrences pass through: an input whose operator occurrences all
\* have a zero-length base (empty brackets, whitespace or a bracket or nothing before
\* the operator) or a zero-length content is returned by rubyToHTML as given.
C9_MalformedPassThrough ==
  (par.fam \in {"malformed", "malformed2"} /\ pc = "idle" /\ log = <<"rubyToHTML">>)
    => IF par.fam = "malformed2" /\ par.y = <<"wellformed">>
       THEN text = Malformed(par.form, par.a, par.op, par.x) \o par.z
                     \o rubyToHTML(Single(<<"c">>, par.op, par.x))
       ELSE text = input

\* two malformed occurrences, empty brackets then empty content, have been scanned
C9_Witness ==
  /\ par.fam = "malformed2" /\ pc = "idle" /\ log = <<"rubyToHTML">>
  /\ par.form = "emptybrackets" /\ par.y = <<"emptycontent">>
  /\ hasRuby(text)

\* normalize(s): a bare-token base is rewritten into its bracketed form
Normalize(p) == IF p.form = "bare" THEN Single(p.a, p.op, p.x) ELSE InputOf(p)

RoundTripped ==
  par.fam = "roundtrip" /\ pc = "idle" /\ log = <<"rubyToHTML", "anyToMarkup">>

Aligned(a, x) == HasToken(x, " ") /\ Len(splitBySpaces(x)) = countCharacters(a)
\* ordinary text that the rendered form keeps as it is
PlainLevel(a, x) ==
  /\ x \notin Markers
  /\ ~HasToken(x, "\\") /\ ~HasToken(x, "&")
  /\ ~Aligned(a, x)
RoundTripScope(p) ==
  /\ Trim(p.a) = p.a
  /\ \/ p.form \in {"single", "bare", "inline"} /\ (p.x \in Markers \/ PlainLevel(p.a, p.x))
     \/ p.form = "pipe" /\ PlainLevel(p.a, p.x) /\ PlainLevel(p.a, p.y)

CodeTail(p) ==
  <<" ">> \o CodeSpan(p.form, p.x)
    \o (IF p.y = None THEN << >> ELSE <<" ">> \o CodeSpan(p.form, p.y))

\* C8: code protection: after anyToMarkup, anyToMacro or anyToHTML every inline or
\* fenced code span of the input stands in the output unchanged, nothing inside it
\* converted.
C8_CodeProtected ==
  (par.fam = "code" /\ pc = "idle" /\ Len(log) = 1 /\ log[1] # "rubyToHTML")
    => Slice(text, Len(text) - Len(CodeTail(par)), Len(text)) = CodeTail(par)

\* The rank of a state inside a call of rubyToHTML: the passes left, the position in
\* the pass (loop head, scan loop, pass returned) and the text left to scan.  Ranks are
\* triples of natural numbers in lexicographic order, which is well-founded.
ScanRank ==
  <<MaxPasses - scan.pass,
    CASE pc = "for" -> 2 [] pc = "while" -> 1 [] OTHER -> 0,
    IF pc = "while" THEN Len(scan.result) - scan.i ELSE 0>>
LexLess(r, q) ==
  \/ r[1] < q[1]
  \/ r[1] = q[1] /\ r[2] < q[2]
  \/ r[1] = q[1] /\ r[2] = q[2] /\ r[3] < q[3]

\* C11: rubyToHTML terminates on every input: every step inside a call lowers a rank
\* of natural numbers, so that the call returns; it runs at most MaxPasses passes and
\* goes on to a further pass only when the last one changed the text and operator
\* tokens remain; inside a pass the cursor i grows at every iteration of the scan loop;
\* brackets nested deeper than MaxPasses are returned with the outermost operator left
\* as text.
C11_RubyToHTMLTerminates ==
  /\ [](pc # "idle" => /\ scan.pass <= MaxPasses
                       /\ scan.i <= Len(scan.result)
                       /\ (pc \in {"while", "passed"} => scan.pass < MaxPasses))
  /\ [][pc # "idle" /\ pc' # "idle" => LexLess(ScanRank', ScanRank)]_vars
  /\ [][pc = "while" /\ pc' = "while" => scan'.i > scan.i]_vars
  /\ [][pc = "passed" /\ pc' = "for" => scan.out # scan.result /\ hasRuby(scan.out)]_vars
  /\ []((par.fam = "nest" /\ pc = "idle" /\ log = <<"rubyToHTML">>) =>
          IF par.form > MaxPasses
          THEN text = Bracket(rubyToHTML(Nest(par.form - 1, par.a, par.op, par.x)))
                        \o Ann(par.op, par.x)
          ELSE ~hasRuby(text))

\* brackets nested deeper than the pass cap have been through rubyToHTML
C11_Witness ==
  /\ par.fam = "nest" /\ par.form > MaxPasses
  /\ pc = "idle" /\ log = <<"rubyToHTML">>
  /\ hasRuby(text)


\* ------------------------------------------------------------------------
\* The slots of one annotation (texts of the family "slot")
\* ------------------------------------------------------------------------

\* the annotation has been rendered: rubyToHTML on the markup forms, anyToHTML on the macro
SlotRendered ==
  /\ par.fam = "slot"
  /\ pc = "idle"
  /\ log = <<IF par.form = "macro" THEN "anyToHTML" ELSE "rubyToHTML">>

\* the filled slots, the raw content of a slot and the side it is on
Slots == IF par.form \in {"pipe", "chain"} THEN {1, 2} ELSE {1}
SlotRaw(k) == IF k = 1 THEN par.x ELSE par.y
SlotSide(k) == IF k = 1 THEN par.op ELSE Opposite(par.op)

BoutenClass(op) == IF op = OVER THEN "ls-ruby-bouten-over" ELSE "ls-ruby-bouten-under"

\* C12: on every path (direct, chained, either pipe part, macro argument) a slot is rendered
\* as bouten exactly when its raw content, before unescaping, is the two dots "..": a single
\* dot and the escaped form \.\. are ordinary ruby text.
C12_BoutenClassification ==
  SlotRendered =>
    \A k \in Slots :
      HasToken(text, BoutenClass(SlotSide(k))) <=> SlotRaw(k) = BOUTEN_PATTERN

UnderlineMarkers == {<<".", "-">>, <<".", "~">>, <<".", "=">>}

\* the class tokens an underline of the marker's style carries, and those it does not
UnderlineStyleClasses(m) ==
  IF m = <<".", "-">> THEN {"ls-ruby-underline"}
  ELSE IF m = <<".", "~">> THEN {"ls-ruby-underline", "ls-ruby-underline-wavy"}
  ELSE {"ls-ruby-underline", "ls-ruby-underline-double"}
UnderlineClassTokens ==
  {"ls-ruby-underline", "ls-ruby-underline-wavy", "ls-ruby-underline-double"}

\* the output holds an rt whose text is t
HasRt(t) == Includes(text, <<"<rt>">> \o t \o <<"</rt>">>)

\* C13: a content that is exactly ".-", ".~" or ".=" is an underline (solid, wavy, double) when
\* it fills the UNDER slot, by a direct ^_, by the opposite-side pipe part, by a chain or by a
\* macro with the under flag; in the OVER slot it is ordinary ruby text equal to the marker
\* and adds no underline class (an underline class in the output is the UNDER slot's).
C13_UnderlineOnlyUnder ==
  SlotRendered =>
    \A k \in Slots :
      SlotRaw(k) \in UnderlineMarkers =>
        IF SlotSide(k) = UNDER
        THEN /\ \A c \in UnderlineClassTokens :
                  HasToken(text, c) <=> c \in UnderlineStyleClasses(SlotRaw(k))
             /\ (\A j \in Slots \ {k} : unescape(SlotRaw(j)) # SlotRaw(k)) =>
                  ~HasRt(SlotRaw(k))
        ELSE /\ HasRt(SlotRaw(k))
             /\ (\E c \in UnderlineClassTokens : HasToken(text, c)) =>
                  \E j \in Slots :
                    SlotSide(j) = UNDER /\ unescape(SlotRaw(j)) \in UnderlineMarkers

\* the marker in the OVER slot beside an underline in the UNDER slot: [a]^^(.-|.~)
C13_Witness ==
  /\ SlotRendered
  /\ par.form = "pipe" /\ par.op = OVER
  /\ par.x = <<".", "-">> /\ par.y = <<".", "~">>
  /\ HasRt(<<".", "-">>)
  /\ HasToken(text, "ls-ruby-underline-wavy")

\* a slot is a decoration when its raw content is the bouten marker, or an underline marker on
\* the under side (C12, C13); every other content is ordinary ruby text
SlotIsDecoration(k) ==
  \/ SlotRaw(k) = BOUTEN_PATTERN
  \/ SlotSide(k) = UNDER /\ SlotRaw(k) \in UnderlineMarkers
DecorationClasses(k) ==
  IF SlotRaw(k) = BOUTEN_PATTERN THEN {BoutenClass(SlotSide(k))}
  ELSE UnderlineStyleClasses(SlotRaw(k))

\* the elements of the output, as a browser parses it
OutKids == ParseRoot(text).kids

\* one ruby element: mixed marker, side of the text slot t, text of t in its rt, class marker
\* of the decoration slot d, no double marker
MixedShape(t, d) ==
  /\ Len(OutKids) = 1
  /\ OutKids[1].tag = "ruby"
  /\ ({"ls-ruby-mixed", PosOf(SlotSide(t))} \cup DecorationClasses(d)) \subseteq ClassList(OutKids[1])
  /\ "ls-ruby-double" \notin ClassList(OutKids[1])
  /\ ChildTexts(OutKids[1], "rt") = <<unescape(SlotRaw(t))>>

\* C14: when exactly one of the two slots is a decoration and the other is ordinary text, by a
\* chain in either order or by a pipe, rubyToHTML gives one ruby element with the ls-ruby-mixed
\* marker, the side marker of the text slot, the text in its rt and the class marker of the
\* decoration for the other slot, and never the ls-ruby-double marker.
C14_MixedShape ==
  (SlotRendered /\ par.form \in {"pipe", "chain"}) =>
    \A t \in Slots : \A d \in Slots \ {t} :
      (~SlotIsDecoration(t) /\ SlotIsDecoration(d)) => MixedShape(t, d)

\* the class string of a decoration-only span: the bouten classes of the bouten slots, over
\* before under, then the underline classes of the underline slot
SpanClasses ==
  LET bouten == {k \in Slots : SlotRaw(k) = BOUTEN_PATTERN}
      under == {k \in Slots : SlotRaw(k) # BOUTEN_PATTERN}
  IN (IF bouten = {} THEN << >> ELSE <<"ls-ruby-bouten">>)
       \o (IF \E k \in bouten : SlotSide(k) = OVER THEN <<" ", "ls-ruby-bouten-over">> ELSE << >>)
       \o (IF \E k \in bouten : SlotSide(k) = UNDER THEN <<" ", "ls-ruby-bouten-under">>
           ELSE << >>)
       \o (IF under = {} THEN << >>
           ELSE (IF bouten = {} THEN << >> ELSE <<" ">>)
                  \o (LET m == SlotRaw(CHOOSE k \in under : TRUE) IN
                      IF m = <<".", "-">> THEN <<"ls-ruby-underline">>
                      ELSE IF m = <<".", "~">>
                        THEN <<"ls-ruby-underline", " ", "ls-ruby-underline-wavy">>
                      ELSE <<"ls-ruby-underline", " ", "ls-ruby-underline-double">>))

\* C15: when every filled slot is a decoration, rubyToHTML gives exactly
\* <span class="C">base</span>, C the class string of the decorations, with no other
\* attribute and no ruby tag.
C15_DecorationOnlySpan ==
  (SlotRendered /\ par.form # "macro" /\ \A k \in Slots : SlotIsDecoration(k)) =>
    text = <<"<span", " ", "class=\"">> \o SpanClasses \o <<"\"", ">">> \o par.a
             \o <<"</span>">>

\* a slot aligns per character when its text splits on whitespace into as many segments as
\* the base has characters
SlotText(k) == unescape(SlotRaw(k))
SlotAligns(k) == Len(splitBySpaces(SlotText(k))) = Len(par.a)

\* an outer ruby element on the side opposite to the first operator, with the double marker,
\* around an inner ruby element on the first operator's side; the inner rt holds the first
\* slot's text, the outer rt the second slot's text
GroupShape ==
  /\ Len(OutKids) = 1
  /\ OutKids[1].tag = "ruby"
  /\ ClassList(OutKids[1]) = {"ls-ruby", PosOf(Opposite(par.op)), "ls-ruby-double"}
  /\ Len(directChildrenByTag(OutKids[1], "ruby")) = 1
  /\ ClassList(firstDirectChildByTag(OutKids[1], "ruby")) = {"ls-ruby", PosOf(par.op)}
  /\ ChildTexts(firstDirectChildByTag(OutKids[1], "ruby"), "rt") = <<Trim(SlotText(1))>>
  /\ ChildTexts(OutKids[1], "rt") = <<Trim(SlotText(2))>>
  /\ TextWithout(firstDirectChildByTag(OutKids[1], "ruby"), {"rt", "rp"}) = par.a

\* C16: for two ordinary-text slots of which neither aligns per character, the output is an
\* outer ruby element tagged with the side opposite to the first operator and ls-ruby-double,
\* around an inner ruby element tagged with the first operator's side; the inner rt carries
\* the first slot's text and the outer rt the second slot's text.
C16_TwoLevelGroupShape ==
  (/\ SlotRendered
   /\ par.form \in {"pipe", "chain"}
   /\ \A k \in Slots : ~SlotIsDecoration(k) /\ ~SlotAligns(k)) => GroupShape

\* the whitespace-separated segments of the single slot's text
Segments == splitBySpaces(SlotText(1))

\* the output element u is a ruby unit on the slot's side around the base text b, its
\* annotation t
IsUnit(u, b, t) ==
  /\ u.tag = "ruby"
  /\ ClassList(u) = {"ls-ruby", PosOf(par.op)}
  /\ TextWithout(u, {"rt", "rp"}) = b
  /\ ChildTexts(u, "rt") = <<t>>

\* one unit per base character, in base order, each with its own segment (left empty when
\* the segment is the character itself)
AlignedUnits ==
  /\ Len(OutKids) = Len(par.a)
  /\ \A i \in 1..Len(par.a) :
       IsUnit(OutKids[i], <<par.a[i]>>,
              IF Segments[i] = <<par.a[i]>> THEN << >> ELSE Segments[i])

\* one unit around the whole base with the whole text
GroupUnit == Len(OutKids) = 1 /\ IsUnit(OutKids[1], par.a, Trim(SlotText(1)))

\* C17: for a single ordinary-text slot, a base of N characters with an annotation that
\* splits on runs of whitespace (any whitespace character) into exactly N segments gives N
\* annotated-character units in base order; any other segment count gives exactly one unit
\* around the whole base.
C17_AlignmentCountRule ==
  (SlotRendered /\ par.form \in {"single", "macro"} /\ ~SlotIsDecoration(1)) =>
    IF Len(Segments) = Len(par.a) THEN AlignedUnits ELSE GroupUnit

\* the ruby elements of the output
OutRubies ==
  LET r == ParseRoot(text)
      q == querySelectorAll(r, "ruby")
  IN {NodeAt(r, q[j]) : j \in 1..Len(q)}

\* a slot is aligned per character when it is ordinary text beside no decoration, holds
\* whitespace and splits into one segment for each character of the base (C17)
SlotSegments(k) == splitBySpaces(SlotText(k))
SlotAlignedPerChar(k) ==
  /\ \A j \in Slots : ~SlotIsDecoration(j)
  /\ \E n \in 1..Len(SlotText(k)) : IsSpace(SlotText(k)[n])
  /\ Len(SlotSegments(k)) = Len(par.a)

\* the unit of character c: a ruby element around c alone
UnitsOfChar(c) == {u \in OutRubies : TextWithout(u, {"rt", "rp"}) = <<c>>}

\* C18: in a slot aligned per character, a segment identical to its base character gives a
\* ruby unit for that character with an empty annotation (the unit is still there), and the
\* character is never written as its own annotation; a segment that differs is the
\* annotation of its character.
C18_AutoHide ==
  SlotRendered =>
    \A k \in Slots :
      SlotAlignedPerChar(k) =>
        \A i \in 1..Len(par.a) :
          IF SlotSegments(k)[i] = <<par.a[i]>>
          THEN /\ \E u \in UnitsOfChar(par.a[i]) :
                    \/ ChildTexts(u, "rt") = << << >> >>
                    \/ PosOf(SlotSide(k)) \notin ClassList(u)
               /\ ~HasRt(<<par.a[i]>>)
          ELSE \E u \in UnitsOfChar(par.a[i]) :
                 /\ PosOf(SlotSide(k)) \in ClassList(u)
                 /\ ChildTexts(u, "rt") = <<SlotSegments(k)[i]>>

\* ------------------------------------------------------------------------
\* Macro calls with missing or blank arguments (texts of the family "margs")
\* ------------------------------------------------------------------------

\* an argument is missing or blank: the list is too short for it, or it trims to nothing
Blank(s) == \A k \in 1..Len(s) : s[k] \in Whitespace
MacroAbsent == par.form < 3 \/ Blank(par.a) \/ Blank(par.x)

\* C19: renderMacroRuby returns the absent result exactly when the base or the annotation
\* argument is missing or blank after trimming, and a rendered string otherwise; anyToHTML
\* leaves a macro call whose rendering is absent unchanged in its output.
C19_MacroAbsentResult ==
  /\ (par.fam = "margs" /\ pc = "idle" /\ Len(log) = 1 /\ log[1] # "anyToHTML") =>
       IF MacroAbsent THEN log = <<"renderMacroRuby:null">> /\ text = input
       ELSE log = <<"renderMacroRuby">> /\ text # << >>
  /\ (Returned("margs", "anyToHTML") /\ MacroAbsent) => text = input

\* ------------------------------------------------------------------------
\* The regex cursor shared by the calls
\* ------------------------------------------------------------------------

\* C20: no state is carried across calls: in every sequence of calls to rubyToHTML,
\* anyToMarkup, anyToMacro and anyToHTML, which share the cursor of the operator regex, each
\* call does what it does when it is run alone, with the cursor at its initial 0.
C20_NoStateAcrossCalls ==
  [][/\ (pc = "idle" /\ log' = Append(log, "rubyToHTML")) => text' = rubyToHTML(text)
     /\ (pc = "idle" /\ log' = Append(log, "anyToHTML")) => text' = anyToHTML(text)
     /\ (pc = "idle" /\ (pc' = "macro_while" \/ log' = Append(log, "anyToMacro"))) =>
          Enter("anyToMacro", "macro", MacroPrefix(text, 0).out, protectCode(text).tokens)
     /\ (pc = "idle" /\ (pc' = "markup_while" \/ log' = Append(log, "anyToMarkup"))) =>
          Enter("anyToMarkup", "markup", MarkupPrefix(text), protectCode(text).tokens)
     /\ (pc # "idle" => lastIndex' = lastIndex)]_vars

\* a call has left the cursor past 0 and the text it returned still holds an operator: the
\* next call scans with the cursor left behind
C20_Witness == pc = "idle" /\ Len(log) = 1 /\ lastIndex # 0 /\ hasRuby(text)

\* ------------------------------------------------------------------------
\* Nested brackets
\* ------------------------------------------------------------------------

PassesDone == IF scan.pass + 1 < par.form THEN scan.pass + 1 ELSE par.form

\* C21: nested bracket bases resolve inner-first, one nesting level per pass: when a pass
\* of rubyToHTML ends, exactly the innermost levels that many passes can reach are rendered,
\* each with the whole content of its bracket (the rendered inner element and the text
\* beside it) as its base, and the levels around them still stand as markup; for a depth of at
\* most 5 the text returned is rendered at every level and holds no operator token.
C21_NestedInnerFirst ==
  /\ (par.fam = "nested" /\ log = << >> /\ pc = "passed")
       => scan.out = NestedLevel(par, par.form, PassesDone)
  /\ (Returned("nested", "rubyToHTML") /\ par.form <= 5)
       => text = NestedLevel(par, par.form, par.form) /\ ~hasRuby(text)

\* five levels with text beside the inner annotations and the operators in turn have been
\* rendered in five passes
C21_Witness ==
  /\ Returned("nested", "rubyToHTML")
  /\ par.form = 5 /\ par.y = <<"b">> /\ par.z = <<"alternate">>
  /\ text = NestedLevel(par, 5, 5)
  /\ ~hasRuby(text)

\* ------------------------------------------------------------------------
\* Backslashes before delimiters
\* ------------------------------------------------------------------------

\* the run of backslashes of the text taken once through the unescaping: every pair of
\* backslashes is one backslash, and a last odd backslash is the escape of the delimiter
HalfSlashes == Slashes(Len(par.x) \div 2)
DelimiterEscaped == Len(par.x) % 2 = 1

\* what the annotation of the text renders to when its delimiter is read by the parity of the
\* backslashes before it
EscapeRendered ==
  LET pos == PosOf(par.op) IN
  CASE par.a = <<"|">> ->
         IF DelimiterEscaped
         THEN RubyElement(pos, <<"a">>, <<"x">> \o HalfSlashes \o <<"|", "y">>)
         ELSE RubyDoubleOpenTag(PosOf(Opposite(par.op)))
                \o RubyElement(pos, <<"a">>, <<"x">> \o HalfSlashes) \o RtTail(<<"y">>)
    [] par.a = <<")">> ->
         IF DelimiterEscaped
         THEN RubyElement(pos, <<"a">>, <<"x">> \o HalfSlashes \o <<")", "y">>)
         ELSE RubyElement(pos, <<"a">>, <<"x">> \o HalfSlashes) \o <<"y", ")">>
    [] par.a = <<"[">> ->
         IF DelimiterEscaped
         THEN RubyElement(pos, <<"a">> \o HalfSlashes \o <<"[", "b">>, <<"x">>)
         ELSE <<"[", "a">> \o par.x \o RubyElement(pos, <<"b">>, <<"x">>)
    [] OTHER ->
         IF DelimiterEscaped
         THEN <<"[">> \o RubyElement(pos, <<"a">> \o HalfSlashes \o <<"]">>, <<"x">>)
         ELSE RubyElement(pos, <<"a">> \o HalfSlashes, <<"x">>)

\* the same inside the bracket of the outer annotation: the escaped delimiter is text of
\* the outer base
EscapeRenderedNested ==
  RubyElement(PosOf(Opposite(par.op)),
              (IF par.a = <<"]">> THEN Tail(EscapeRendered) ELSE EscapeRendered) \o <<"c">>,
              <<"z">>)

\* C22: escape parity: a delimiter (|, ), [ or ]) behind an odd number of backslashes is
\* literal: it does not split levels, close the content or delimit a base, and it stands in
\* the output without its escaping backslash; behind an even number of backslashes (zero
\* too) it is a real delimiter.
C22_EscapeParity ==
  Returned("escape", "rubyToHTML")
    => text = IF par.form = "nested" THEN EscapeRenderedNested ELSE EscapeRendered

\* the same for the annotations that are not the base of another annotation
C22_EscapeParitySingle ==
  (Returned("escape", "rubyToHTML") /\ par.form = "single") => text = EscapeRendered

\* the text t stands in the output as the base of an element, as the text of an <rt>
BaseShown(t) ==
  \/ Includes(text, <<">">> \o t \o <<"<rp>">>)
  \/ Includes(text, <<">">> \o t \o <<"</span>">>)
RtShown(t) == Includes(text, <<"<rt>">> \o t \o <<"</rt>">>)
\* an annotation stands in one <rt>, or part by part in the <rt> of every base character
AnnShown(t) ==
  \/ RtShown(t)
  \/ /\ HasToken(t, " ")
     /\ \A k \in 1..Len(splitBySpaces(t)) : RtShown(splitBySpaces(t)[k])
\* the base of the annotation stands in the output whole, or character by character
AnnBaseShown(t) ==
  \/ BaseShown(t)
  \/ \A k \in 1..Len(t) : BaseShown(<<t[k]>>)

\* C23: escapes are removed exactly once: on every rendering path (single level, bare base,
\* pipe, chain, bouten, bouten with ruby text, and an inner annotation inside the bracket of
\* an outer one that a later pass renders) the base and the annotation texts stand in the
\* output of rubyToHTML as they are after one unescaping of the input's text.
C23_UnescapedOnce ==
  Returned("unescape", "rubyToHTML")
    => /\ AnnBaseShown(unescape(par.a))
       /\ par.form # "bouten" => AnnShown(unescape(par.x))
       /\ par.form \in {"pipe", "chain"} => AnnShown(unescape(par.y))

\* the same on the paths of one pass
C23_UnescapedOnceOnePass ==
  (Returned("unescape", "rubyToHTML") /\ par.form # "nested")
    => /\ AnnBaseShown(unescape(par.a))
       /\ par.form # "bouten" => AnnShown(unescape(par.x))
       /\ par.form \in {"pipe", "chain"} => AnnShown(unescape(par.y))

\* ---- C24: the order of the reverse reduction

\* a ruby element has a ruby element somewhere inside it
HasNestedRuby(n) == QueryFrom(n, << >>, "ruby") # << >>
\* the elements of the snapshot that the loop finds in the document with a ruby inside
NestingRubies ==
  {k \in 1..Len(rubies) :
     /\ Attached(root, rubies[k])
     /\ NodeAt(root, rubies[k]).tag = "ruby"
     /\ HasNestedRuby(NodeAt(root, rubies[k]))}

\* C24: the reverse reduction is bottom-up: a walk over the ruby elements
\* (rubyHtmlToMarkup and htmlElementsToMacro) replaces a ruby element by text only when no
\* ruby element is nested inside it; an element that wraps another one is still an element
\* after the walk that found the inner one inside it.
C24_BottomUp ==
  [][(pc \in {"markup_for", "macro_for"})
       => (\A k \in NestingRubies :
             Attached(root', rubies[k]) /\ NodeAt(root', rubies[k]).tag = "ruby")]_vars

\* ---- C25: the placeholders of protectCode and restoreCode

\* restoreCode(protectCode(s)) for the text s
ProtectRestore(s) == restoreCode(protectCode(s).result, protectCode(s).tokens)

\* C25: placeholder substitution is reversible: restoring the code spans of a protected
\* text gives the text back, also when the text holds placeholder-shaped text inside or
\* outside a code span.
C25_ProtectRestore == par.fam = "code" => ProtectRestore(input) = input

\* ---- C26: the text around the matched spans

\* annotations with text before, between and after them
AroundPars == RoundTripPars \cup ChainPars \cup MalformedPars \cup UnterminatedPars
InitAround == Start(AroundPars)
SpecAround == InitAround /\ [][NextScan]_vars

\* where the scan stands in the input of the pass after an iteration (a break leaves i
\* as it is and takes the rest of the input)
ScanEnd == IF pc' = "passed" THEN Len(scan.result) ELSE scan'.i
\* a span that starts with its base (in brackets, or a bare token without whitespace),
\* then has an operator and ends with the parenthesis that closes a content
IsMatchedSpan(s) ==
  /\ s # << >>
  /\ s[Len(s)] = ")"
  /\ \E k \in 2..(Len(s) - 3) :
       /\ s[k] = "^" /\ s[k + 1] \in {"^", "_"} /\ s[k + 2] = "("
       /\ \/ s[1] = "[" /\ s[k - 1] = "]"
          \/ \A j \in 1..(k - 1) : s[j] \notin {" ", "\t", "\n", "\r", "[", "]"}
\* rendered elements: from the opening of an element to the closing of one
IsRendering(r) ==
  /\ r # << >>
  /\ r[1] \in {"<ruby", "<span"}
  /\ r[Len(r)] \in {"</ruby>", "</span>"}
\* one iteration of the scan appends the input from the cursor on unchanged, or the input up
\* to the start b of a matched span unchanged and then the rendering of the span
IterationKeepsText ==
  \/ scan'.out = scan.out \o Slice(scan.result, scan.i, ScanEnd)
  \/ \E b \in scan.i..(ScanEnd - 1) :
       /\ Len(scan'.out) > Len(scan.out) + (b - scan.i)
       /\ Slice(scan'.out, 0, Len(scan.out) + (b - scan.i))
            = scan.out \o Slice(scan.result, scan.i, b)
       /\ IsRendering(SliceFrom(scan'.out, Len(scan.out) + (b - scan.i)))
       /\ IsMatchedSpan(Slice(scan.result, b, ScanEnd))

\* C26: surrounding text is preserved: every iteration of the scan of one pass of rubyToHTML
\* appends to the output either input text unchanged, or the unchanged input up to a matched
\* span (base, operator, content, chained operator) followed by the rendering of the span,
\* and moves the cursor to the end of what it appended: the output of the pass is the input
\* with the matched spans replaced and every other character in place and in order.
C26_SurroundingText == [][(pc = "while") => IterationKeepsText]_vars

\* a pass has returned an output that starts and ends with the plain text around a rendered
\* span
C26_Witness ==
  /\ par.fam = "roundtrip" /\ par.form = "inline" /\ pc = "passed" /\ scan.pass = 0
  /\ Slice(scan.out, 0, 2) = <<"p", " ">>
  /\ IsRendering(Slice(scan.out, 2, Len(scan.out) - 2))
  /\ SliceFrom(scan.out, Len(scan.out) - 2) = <<" ", "q">>

\* ---- C27: the elements an earlier pass has written

\* what the iteration of the scan at cursor i captures: has is false when the iteration
\* renders nothing (no operator, no base, content not closed or empty)
ScanMatch(inp, i, re) ==
  LET opStart == OpRegexExec(inp, AssignLastIndex(re, i))
      baseStart == BaseStartOf(inp, opStart, i)
      baseHtml == BaseHtmlOf(inp, opStart, i)
      annEnd == findCloseParen(inp, opStart + 3)
  IN [has |-> /\ opStart >= 0
              /\ ~NoBase(baseStart, i, baseHtml)
              /\ annEnd > opStart + 3,
      opStart |-> opStart, baseStart |-> baseStart, baseHtml |-> baseHtml]

ElementOpen == {"<ruby", "<span"}
ElementClose == {"</ruby>", "</span>"}
CountIn(s, set) == Cardinality({k \in 1..Len(s) : s[k] \in set})
\* the index k of s (from 0) lies inside a tag: after the opening of a tag and before
\* its closing >
InsideTag(s, k) ==
  \E j \in 1..k : s[j] \in ElementOpen /\ \A m \in (j + 1)..k : s[m] # ">"
\* the text holds every element whole: no closing tag without its opening, no opening
\* without its closing
ElementsWhole(s) ==
  /\ \A n \in 0..Len(s) :
       CountIn(SubSeq(s, 1, n), ElementOpen) >= CountIn(SubSeq(s, 1, n), ElementClose)
  /\ CountIn(s, ElementOpen) = CountIn(s, ElementClose)
\* no element stands inside the tag of another one
TagsIntact(s) == \A k \in 1..Len(s) : s[k] \in ElementOpen => ~InsideTag(s, k - 1)

MatchIntact(m) ==
  m.has => /\ ElementsWhole(m.baseHtml)
           /\ ~InsideTag(scan.result, m.baseStart)
           /\ ~InsideTag(scan.result, m.opStart)

\* C27: elements emitted by an earlier pass stay intact: in a later pass of rubyToHTML a
\* captured base holds an element of the earlier pass entirely or not at all, a base
\* neither starts nor ends inside a tag, and the output of a pass has no element inside
\* the tag (the attribute text) of another one.
C27_ElementsIntact ==
  /\ (log = << >> /\ pc = "while" /\ scan.pass >= 1 /\ scan.i < Len(scan.result))
       => MatchIntact(ScanMatch(scan.result, scan.i, lastIndex))
  /\ (log = << >> /\ pc = "passed") => TagsIntact(scan.out)

\* the same for bracketed bases nested in each other
C27_NestedIntact == par.fam = "nested" => C27_ElementsIntact

\* ---- C28: the gate of the conversion commands

InitGate == Start(GatePars)
SpecGate == InitGate /\ [][Next]_vars

\* one conversion command has run on the block
Converted == pc = "idle" /\ Len(log) = 1 /\ log[1] \in {"anyToMarkup", "anyToMacro", "anyToHTML"}

\* C28: the detection gate is complete: a block for which hasAnyRubyContent is false (the
\* commands skip it) is left unchanged by anyToMarkup, anyToMacro and anyToHTML, macro
\* calls with any whitespace MACRO_RE accepts included.
C28_GateComplete ==
  (par.fam = "gate" /\ ~hasAnyRubyContent(input) /\ Converted) => text = input

\* the same for the blocks without a macro call
C28_GatePlain ==
  (par.fam = "gate" /\ par.form = "plain" /\ ~hasAnyRubyContent(input) /\ Converted)
    => text = input

\* ---- C29: from markup to the macro form and back

InitMacroTrip == Start(MacroTripPars)
SpecMacroTrip == InitMacroTrip /\ [][Next]_vars

HasComma == HasToken(par.a, ",") \/ HasToken(par.x, ",")
MacroTripHolds ==
  /\ Returned("macrotrip", "anyToMacro") => text = MacroCall(par.a, par.x, par.op = UNDER)
  /\ (par.fam = "macrotrip" /\ pc = "idle" /\ log = <<"anyToMacro", "anyToMarkup">>)
       => text = input

\* C29: markup and macro forms round-trip for a single-level annotation m = [b]op(a) with
\* b and a non-empty and without backslash, bracket, parenthesis, pipe, brace, backtick and
\* outer whitespace: anyToMacro(m) is the macro call of b and a, without position argument
\* for ^^ and with the trailing argument under for ^_, and anyToMarkup(anyToMacro(m)) = m.
C29_MacroRoundTrip == MacroTripHolds

\* the same for b and a without a comma
C29_MacroRoundTripNoComma == ~HasComma => MacroTripHolds

\* ---- C30: anyToMacro on every form of annotation

\* a bare token that is a blank is no base: the text is not an annotation
WellFormed == ~(par.form = "bare" /\ par.a = <<" ">>)

\* C30: anyToMacro converts every well-formed annotation completely: for a text made of
\* well-formed annotations (single, bare, inside text, nested, pipe, chained) the output
\* of anyToMacro holds no operator token ^^( or ^_(.
C30_MacroComplete ==
  (Returned("roundtrip", "anyToMacro") /\ WellFormed) => ~hasRuby(text)

\* the same for the forms with one operator
C30_MacroCompleteOneOp ==
  (Returned("roundtrip", "anyToMacro") /\ WellFormed /\ par.form \notin {"chain", "nested"})
    => ~hasRuby(text)

====
